---- MODULE Spec2Model ----
\* Model of the cola router: route registration (pushMethod / addRoute /
\* buildTree), request dispatch (handleRequest / Core.next / Ctx.Next) and the
\* pooled request context (assignCtx / releaseCtx).
\*
\* Paths are sequences of one-character strings, so that prefixes, case folding
\* and trailing-slash stripping are computed as the code computes them.
EXTENDS Integers, Sequences, FiniteSets, TLC

\* ---------------------------------------------------------------- bounds
\* registrations made before serving starts (dispatch specification)
MaxRegs == 3
\* registrations made in the registration-only specification
MaxRegsR == 3
\* handlers passed to one registration call
MaxHands == 1
\* Next() calls one handler invocation may make
MaxNexts == 2
\* request goroutines running concurrently in the pool specification
NumReqs == 2
\* requests served in all by the goroutines of the pool specification
MaxServedP == 2
\* Ctx objects the pool allocates while it still holds a free one
MaxCtx == 2
\* registrations of the bucket specification
MaxRegsB == 2
\* Use calls of the handler-object specification
MaxUses == 2
\* registrations of the static-mount specification
MaxRegsS == 2
\* shutdown signals delivered to one process
MaxSignals == 2
\* registrations of the chain specification
MaxRegsN == 3
\* runtime.GOMAXPROCS(0) of the prefork parent
MaxProcs == 2
\* process ids the system hands out: a pid is free again once its process
\* has been waited for
Pids == 1..MaxProcs

\* ---------------------------------------------------------------- constants
\* the nil pointer (route, context and request pointers count from 1)
Nil == 0
\* the nil error
NoErr == "nil"
methodUse == "USE"
Methods == <<"GET", "HEAD", "POST">>
StatusOK == 200
DefaultBodyLimit == 4194304
DefaultConcurrency == 262144
DefaultBufferSize == 4096
StatusBadRequest == 400
StatusForbidden == 403
StatusNotFound == 404
StatusInternalServerError == 500
ErrMethodNotAllowed == "ErrMethodNotAllowed"

\* ---------------------------------------------------------------- strings
Slash == "/"

ToLowerChar(ch) ==
    IF ch = "A" THEN "a" ELSE IF ch = "B" THEN "b" ELSE IF ch = "C" THEN "c" ELSE ch

ToLower(s) == [i \in 1..Len(s) |-> ToLowerChar(s[i])]

RECURSIVE TrimRight(_, _)
TrimRight(s, ch) ==
    IF Len(s) > 0 /\ s[Len(s)] = ch THEN TrimRight(SubSeq(s, 1, Len(s) - 1), ch) ELSE s

HasPrefix(s, pre) == Len(s) >= Len(pre) /\ SubSeq(s, 1, Len(pre)) = pre

methodInt(m) ==
    IF \E i \in 1..Len(Methods) : Methods[i] = m
    THEN CHOOSE i \in 1..Len(Methods) : Methods[i] = m
    ELSE -1

MethodIdx == 1..Len(Methods)

\* the leading literal part of a pattern: everything before the first
\* parameter or wildcard marker
IsMarker(ch) == ch \in {":", "*", "+"}

RECURSIVE segs0Const(_)
segs0Const(p) ==
    IF Len(p) = 0 \/ IsMarker(p[1]) THEN <<>> ELSE <<p[1]>> \o segs0Const(Tail(p))

\* names of the parameters of a pattern: the wildcard, or one named
\* parameter (names are one character long in the patterns modelled)
routeParams(p) ==
    IF \E i \in 1..Len(p) : p[i] = "*" THEN <<"*1">>
    ELSE IF \E i \in 1..(Len(p) - 1) : p[i] = ":"
    THEN <<p[(CHOOSE i \in 1..(Len(p) - 1) : p[i] = ":") + 1]>>
    ELSE <<>>

\* the pattern is a literal prefix followed by one optional named parameter
\* that ends it ("/page/:id?")
optionalLast(p) ==
    /\ Len(p) >= 3
    /\ p[Len(p)] = "?"
    /\ LET n == Len(segs0Const(p))
       IN /\ Len(p) >= n + 3
          /\ p[n + 1] = ":"
          /\ \A i \in (n + 2)..(Len(p) - 1) : p[i] \notin {Slash, ":", "?"}

\* the init process, a process id of the parent, and a process that adopts
\* orphans in place of init (a child subreaper)
InitPid == 1
MasterPid == 2
SubreaperPid == 3
\* NewView: no binding yet, the yield function is the "layout called
\* unexpectedly" stub (<<>>); include tells whether the templates call the
\* include or parse helper without a bind argument
newView(layout, include) == [layout |-> layout, include |-> include, binding |-> 0, yield |-> <<>>]
\* a request that has not called Render
idleRender == [pc |-> "idle", out |-> <<>>, cur |-> <<>>]
\* a call of New about to be made: opts is <<>> (no *Options argument) or
\* <<o>>; dbOK tells whether model.New would succeed
newCall(opts, dbOK) == [pc |-> "call", opts |-> opts, dbOK |-> dbOK, core |-> <<>>]
\* a process after NewEngine: the quit channel is registered for the shutdown
\* signals and the looper goroutine runs; Serve has not been called yet
newEngine(role, mods) ==
    [role |-> role, mods |-> mods, pc |-> "modules", i |-> 0, quit |-> 0,
     ln |-> "nil", sigs |-> 0, shutdowns |-> 0, modexit |-> <<>>, exited |-> <<>>,
     err |-> NoErr, kids |-> 0]
\* a child process right after exec, before it listens
newWorker(ppid) == [pc |-> "listen", ppid |-> ppid, watch |-> FALSE, err |-> NoErr]
\* ---------------------------------------------------------------- state
VARIABLES
    CaseSensitive,  \* Options.CaseSensitive
    routes,         \* heap of Route objects, indexed by the pointer value
    stack,          \* Core.stack: per method, the list of route pointers
    treeStack,      \* Core.treeStack: per method, bucket key -> route pointers
    routesCount,    \* Core.routesCount
    regs,           \* history: the pushMethod calls made, in call order
    aborted,        \* a registration panicked: the process is gone
    serving,        \* registration is over, the server accepts requests
    pool,           \* Core.pool: the contexts currently held by the sync.Pool
    ctxs,           \* heap of Ctx objects, indexed by the pointer value
    reqs,           \* per request goroutine: its fasthttp request/response and position
    childs,         \* prefork: the map pid -> started command (0: no entry)
    channel,        \* prefork: the buffered channel of child{pid, err}
    cmds,           \* prefork: the commands started, in start order, with their waiters
    parent,         \* prefork: the parent's position, loop counter and returned error
    worker,         \* prefork child processes: position, parent pid seen, watcher
    master,         \* the process that started the children, and the system around it
    engine,         \* the process running an Engine: Serve's position, quit channel, server, modules
    app,            \* a call of New: its options argument, and the Core it returns or the way it ends
    ve,             \* the ViewEngine shared by all requests: layout, binding field, the layout's yield function
    rend,           \* per request: position in Ctx.Render and what was written to its body writer
    adders,         \* goroutines inside addRoute: position, route pointer, method, loaded slice
    modules,        \* the module registry: the IDs under which a module is registered
    got             \* the scope and the result of the last GetModules call

regVars == <<CaseSensitive, routes, stack, treeStack, routesCount, regs, aborted, serving>>
reqVars == <<pool, ctxs, reqs>>
procVars == <<childs, channel, cmds, parent>>
childVars == <<worker, master>>
engVars == <<engine>>
newVars == <<app>>
viewVars == <<ve, rend>>
concVars == <<adders>>
modVars == <<modules, got>>
vars == <<CaseSensitive, routes, stack, treeStack, routesCount, regs, aborted, serving,
          pool, ctxs, reqs, childs, channel, cmds, parent,
          worker, master,
          engine,
          app,
          ve, rend,
          adders,
          modules, got>>

\* ---------------------------------------------------------------- buildTree
treePathOfUseGlobal(route) ==
    IF ~route.use /\ Len(route.const) >= 3 THEN SubSeq(route.const, 1, 3) ELSE <<>>

treePathOf(route) ==
    IF Len(route.const) >= 3 THEN SubSeq(route.const, 1, 3) ELSE <<>>

RECURSIVE uniqueRouteStack(_)
uniqueRouteStack(s) ==
    IF s = <<>> THEN <<>>
    ELSE LET rest == uniqueRouteStack(SubSeq(s, 1, Len(s) - 1))
             x == s[Len(s)]
         IN IF \E i \in 1..Len(rest) : rest[i] = x THEN rest ELSE Append(rest, x)

\* sort.Slice by pos; positions of distinct route objects are distinct
RECURSIVE sortByPos(_, _)
sortByPos(rs, s) ==
    IF s = <<>> THEN <<>>
    ELSE LET i == CHOOSE k \in 1..Len(s) : \A j \in 1..Len(s) : rs[s[k]].pos <= rs[s[j]].pos
         IN <<s[i]>> \o sortByPos(rs, SubSeq(s, 1, i - 1) \o SubSeq(s, i + 1, Len(s)))

selectKey(rs, s, key) == SelectSeq(s, LAMBDA r : treePathOf(rs[r]) = key)

buildTreeNoGlobalMerge(rs, stk) ==
    [m \in MethodIdx |->
        LET keys == {treePathOf(rs[stk[m][i]]) : i \in 1..Len(stk[m])}
        IN [k \in keys |-> sortByPos(rs, selectKey(rs, stk[m], k))]]

buildTree(rs, stk) ==
    [m \in MethodIdx |->
        LET keys == {treePathOf(rs[stk[m][i]]) : i \in 1..Len(stk[m])}
            first == [k \in keys |-> selectKey(rs, stk[m], k)]
            global == IF <<>> \in keys THEN first[<<>>] ELSE <<>>
        IN [k \in keys |->
               IF k # <<>>
               THEN sortByPos(rs, uniqueRouteStack(first[k] \o global))
               ELSE sortByPos(rs, first[k])]]

\* ---------------------------------------------------------------- addRoute
\* st is the registration state [routes, stack, treeStack, routesCount];
\* rid points to the route object being added
addRouteNeverMerges(st, method, rid) ==
    LET m == methodInt(method)
        rs == [st.routes EXCEPT ![rid].pos = st.routesCount + 1, ![rid].Method = method]
        stk == [st.stack EXCEPT ![m] = Append(@, rid)]
    IN [routes |-> rs,
        stack |-> stk,
        routesCount |-> st.routesCount + 1,
        treeStack |-> buildTree(rs, stk)]

addRouteCounterNotIncremented(st, method, rid) ==
    LET m == methodInt(method)
        l == Len(st.stack[m])
        route == st.routes[rid]
        merge == l > 0 /\ st.routes[st.stack[m][l]].Path = route.Path
                       /\ route.use = st.routes[st.stack[m][l]].use
        pre == st.stack[m][l]
        rs == IF merge
              THEN [st.routes EXCEPT ![pre].Handlers = @ \o route.Handlers]
              ELSE [st.routes EXCEPT ![rid].pos = st.routesCount,
                                     ![rid].Method = method]
        stk == IF merge THEN st.stack
               ELSE [st.stack EXCEPT ![m] = Append(@, rid)]
    IN [routes |-> rs,
        stack |-> stk,
        routesCount |-> st.routesCount,
        treeStack |-> buildTree(rs, stk)]

addRoute(st, method, rid) ==
    LET m == methodInt(method)
        l == Len(st.stack[m])
        route == st.routes[rid]
        merge == l > 0 /\ st.routes[st.stack[m][l]].Path = route.Path
                       /\ route.use = st.routes[st.stack[m][l]].use
        pre == st.stack[m][l]
        rs == IF merge
              THEN [st.routes EXCEPT ![pre].Handlers = @ \o route.Handlers]
              ELSE [st.routes EXCEPT ![rid].pos = st.routesCount + 1,
                                     ![rid].Method = method]
        stk == IF merge THEN st.stack
               ELSE [st.stack EXCEPT ![m] = Append(@, rid)]
    IN [routes |-> rs,
        stack |-> stk,
        routesCount |-> IF merge THEN st.routesCount ELSE st.routesCount + 1,
        treeStack |-> buildTree(rs, stk)]

addRouteFirstMethodOnly(st, i, rid) == addRoute(st, Methods[1], rid)

RECURSIVE addRouteAll(_, _, _)
addRouteAll(st, i, rid) ==
    IF i > Len(Methods) THEN st
    ELSE addRouteAll(addRoute(st, Methods[i], rid), i + 1, rid)

\* ---------------------------------------------------------------- pushMethod
normRaw(pathRaw) ==
    LET p1 == IF pathRaw = <<>> THEN <<Slash>> ELSE pathRaw
    IN IF p1[1] # Slash THEN <<Slash>> \o p1 ELSE p1

normPretty(cs, raw) ==
    LET p1 == IF ~cs /\ Len(raw) > 1 THEN ToLower(raw) ELSE raw
    IN IF Len(p1) > 1 THEN TrimRight(p1, Slash) ELSE p1

newRoute(cs, method, pathRaw, handlers) ==
    LET raw == normRaw(pathRaw)
        pretty == normPretty(cs, raw)
    IN [use |-> method = methodUse,
        star |-> pretty = <<Slash, "*">>,
        root |-> pretty = <<Slash>>,
        path |-> pretty,
        const |-> segs0Const(pretty),
        Params |-> routeParams(raw),
        Path |-> raw,
        Method |-> method,
        Handlers |-> handlers,
        pos |-> 0]

pushMethodPanicsOnMethodOnly(method, handlers) ==
    method # methodUse /\ methodInt(method) = -1

pushMethodPanics(method, handlers) ==
    \/ method # methodUse /\ methodInt(method) = -1
    \/ Len(handlers) = 0

\* a route object that no list points to is garbage and leaves the heap
referenced(st, rid) == \E m \in MethodIdx : \E i \in 1..Len(st.stack[m]) : st.stack[m][i] = rid

pushMethod(st, cs, method, pathRaw, handlers) ==
    LET rid == Len(st.routes) + 1
        st0 == [st EXCEPT !.routes = Append(@, newRoute(cs, method, pathRaw, handlers))]
        st1 == IF method = methodUse THEN addRouteAll(st0, 1, rid)
               ELSE addRoute(st0, method, rid)
    IN IF referenced(st1, rid) THEN st1
       ELSE [st1 EXCEPT !.routes = SubSeq(@, 1, rid - 1)]

regState == [routes |-> routes, stack |-> stack, treeStack |-> treeStack,
             routesCount |-> routesCount]

\* handlers of the k-th registration call: <<k, 1>> .. <<k, n>>
handlersOf(k, n) == [i \in 1..n |-> <<k, i>>]

\* one pushMethod call with the handlers hs, entered in the history as rec
\* (rec.ok is set here): it panics, or changes the registration state
pushMethodCall(rec, hs) ==
    IF pushMethodPanics(rec.method, hs)
    THEN /\ aborted' = TRUE
         /\ regs' = Append(regs, [rec EXCEPT !.ok = FALSE])
         /\ UNCHANGED <<routes, stack, treeStack, routesCount>>
    ELSE LET st == pushMethod(regState, CaseSensitive, rec.method, rec.path, hs)
         IN /\ routes' = st.routes
            /\ stack' = st.stack
            /\ treeStack' = st.treeStack
            /\ routesCount' = st.routesCount
            /\ regs' = Append(regs, [rec EXCEPT !.ok = TRUE])
            /\ aborted' = FALSE

\* an entry of the history of pushMethod calls: by names the caller, plain
\* counts the func(*Ctx) arguments of a Use call that are not of type Hand,
\* pre points a verb route of a handler object to the entry of its Preload
regEntry(method, pathRaw, n, by, plain, pre) ==
    [method |-> method, path |-> pathRaw, n |-> n, ok |-> TRUE,
     by |-> by, plain |-> plain, pre |-> pre]

\* Core.Add(method, path, handlers...), or Core.Use(path, handlers...) with
\* handlers of type Hand when method is USE: one pushMethod call
Register(method, pathRaw, n) ==
    /\ ~aborted /\ ~serving
    /\ pushMethodCall(regEntry(method, pathRaw, n, "Add", 0, 0),
                      handlersOf(Len(regs) + 1, n))
    /\ UNCHANGED <<CaseSensitive, serving>>
    /\ UNCHANGED <<reqVars, procVars, childVars, engVars, newVars, viewVars, concVars, modVars>>

\* ---------------------------------------------------------------- Route.match
\* result of a match attempt: whether the route matches and the parameter
\* value slots after the attempt
\* a literal prefix followed by an optional final parameter: the parameter
\* may be absent, with or without the slash that ends the prefix
\* ("/page/:id?" matches "/page" and "/page/5")
matchOptional(const, detectionPath, path, values) ==
    LET n == Len(const)
        bare == IF n > 1 /\ const[n] = Slash THEN SubSeq(const, 1, n - 1) ELSE const
        rest == SubSeq(path, n + 1, Len(detectionPath))
    IN IF detectionPath = bare
       THEN [ok |-> TRUE, values |-> <<<<>>>>]
       ELSE IF HasPrefix(detectionPath, const) /\ \A i \in 1..Len(rest) : rest[i] # Slash
       THEN [ok |-> TRUE, values |-> <<rest>>]
       ELSE [ok |-> FALSE, values |-> values]

match(route, detectionPath, path, values) ==
    IF route.root /\ detectionPath = <<Slash>>
    THEN [ok |-> TRUE, values |-> values]
    ELSE IF route.star
    THEN [ok |-> TRUE, values |-> <<Tail(path)>>]
    ELSE IF route.use
    THEN [ok |-> route.root \/ HasPrefix(detectionPath, route.path), values |-> values]
    ELSE IF optionalLast(route.path)
    THEN matchOptional(route.const, detectionPath, path, values)
    ELSE [ok |-> route.path = detectionPath, values |-> values]

\* the bucket a context scans: the one keyed by its treePath, else the ""-bucket
treeOf(ts, m, treePath) ==
    IF treePath \in DOMAIN ts[m] THEN ts[m][treePath]
    ELSE IF <<>> \in DOMAIN ts[m] THEN ts[m][<<>>]
    ELSE <<>>

\* the path is served by a non-use route of another method
methodExist(rs, ts, ctx) ==
    \E i \in MethodIdx :
        /\ i # ctx.methodINT
        /\ LET tree == treeOf(ts, i, ctx.treePath)
           IN \E j \in 1..Len(tree) :
                  /\ ~rs[tree[j]].use
                  /\ match(rs[tree[j]], ctx.detectionPath, ctx.path, ctx.values).ok

\* ---------------------------------------------------------------- Ctx
\* new(Ctx): the zero value
newCtx ==
    [index |-> 0, indexHandler |-> 0, method |-> "", methodINT |-> 0,
     path |-> <<>>, detectionPath |-> <<>>, pathOriginal |-> <<>>,
     values |-> <<<<>>>>, treePath |-> <<>>, matched |-> FALSE,
     route |-> Nil, RequestCtx |-> Nil]

depPaths(cs, c) ==
    LET path == c.pathOriginal
        d1 == IF ~cs THEN ToLower(path) ELSE path
        d2 == IF Len(d1) > 1 /\ d1[Len(d1)] = Slash THEN TrimRight(d1, Slash) ELSE d1
    IN [c EXCEPT !.path = path,
                 !.detectionPath = d2,
                 !.treePath = IF Len(d2) >= 3 THEN SubSeq(d2, 1, 3) ELSE <<>>]

\* Ctx.init; fctx is the request the context now serves
ctxInit(cs, c, fctx, method, path) ==
    depPaths(cs, [c EXCEPT !.pathOriginal = path,
                           !.path = path,
                           !.method = method,
                           !.methodINT = methodInt(method),
                           !.RequestCtx = fctx,
                           !.index = -1,
                           !.indexHandler = 0,
                           !.matched = FALSE])

\* ---------------------------------------------------------------- Core.next
\* the mutant forgets the increment of the cursor before the first candidate
matchingFromCursor(rs, tree, ctx) ==
    {j \in (IF ctx.index < 0 THEN 0 ELSE ctx.index)..(Len(tree) - 1) :
        match(rs[tree[j + 1]], ctx.detectionPath, ctx.path, ctx.values).ok}

\* positions (0-based, as in the code) of the candidates after the cursor
\* that match the request
matchingAfter(rs, tree, ctx) ==
    {j \in (ctx.index + 1)..(Len(tree) - 1) :
        match(rs[tree[j + 1]], ctx.detectionPath, ctx.path, ctx.values).ok}

firstMatchKeepsScanning(rs, tree, ctx) ==
    LET S == matchingAfter(rs, tree, ctx)
    IN CHOOSE j \in S : \A k \in S : j >= k

firstMatch(rs, tree, ctx) ==
    LET S == matchingAfter(rs, tree, ctx)
    IN CHOOSE j \in S : \A k \in S : j <= k

markMatchedByAnyRoute(ctx, route) == TRUE

markMatched(ctx, route) == ctx.matched \/ ~route.use

\* what the scan decides: found, the context afterwards, the handler to
\* invoke and the error returned
coreNext(rs, ts, ctx) ==
    LET tree == treeOf(ts, ctx.methodINT, ctx.treePath)
        lenr == Len(tree) - 1
    IN IF matchingAfter(rs, tree, ctx) # {}
       THEN LET j == firstMatch(rs, tree, ctx)
                route == rs[tree[j + 1]]
                mr == match(route, ctx.detectionPath, ctx.path, ctx.values)
            IN [found |-> TRUE,
                ctx |-> [ctx EXCEPT !.index = j,
                                    !.values = mr.values,
                                    !.route = tree[j + 1],
                                    !.matched = markMatched(ctx, route),
                                    !.indexHandler = 0],
                hand |-> route.Handlers[1],
                err |-> NoErr]
       ELSE [found |-> FALSE,
             ctx |-> [ctx EXCEPT !.index = IF ctx.index < lenr THEN lenr ELSE ctx.index],
             hand |-> Nil,
             err |-> IF ~ctx.matched /\ methodExist(rs, ts, ctx)
                     THEN ErrMethodNotAllowed ELSE NoErr]

\* Ctx.SendStatus: the status, and the status message when the body is empty
SendStatus(rq, status) ==
    [rq EXCEPT !.status = status,
               !.body = IF rq.body = <<>> THEN <<"StatusMessage", status>> ELSE rq.body]

SendString(rq, body) == [rq EXCEPT !.body = body]

\* a handler invocation as the request's history records it: the route, the
\* cursor and the chain index of the context when the handler is called
invocation(c) == [route |-> c.route, index |-> c.index, indexHandler |-> c.indexHandler]

\* the request after a Core.next call with result res
afterCoreNextStatusOnly(rq, c, res) ==
    IF res.found
    THEN [rq EXCEPT !.frames = Append(@, [h |-> res.hand, nexts |-> 0]),
                    !.trace = Append(@, res.hand),
                    !.calls = Append(@, invocation(res.ctx))]
    ELSE [SendStatus(rq, StatusNotFound) EXCEPT !.exhausted = TRUE]

afterCoreNext(rq, c, res) ==
    IF res.found
    THEN [rq EXCEPT !.frames = Append(@, [h |-> res.hand, nexts |-> 0]),
                    !.trace = Append(@, res.hand),
                    !.calls = Append(@, invocation(res.ctx))]
    ELSE [SendString(SendStatus(rq, StatusNotFound),
                     <<"Cannot", c.method, c.pathOriginal>>)
             EXCEPT !.exhausted = TRUE]

\* ---------------------------------------------------------------- handleRequest
ReqIds == 1..NumReqs

newReq(method, path, served) ==
    [pc |-> "assigned", ctx |-> Nil, method |-> method, path |-> path,
     status |-> StatusOK, body |-> <<>>, frames |-> <<>>, trace |-> <<>>,
     calls |-> <<>>,
     match |-> FALSE, err |-> NoErr, lastMatch |-> FALSE, lastErr |-> NoErr, exhausted |-> FALSE,
     released |-> 0, served |-> served, op |-> "assignCtx", from |-> -1,
     multi |-> FALSE, ctype |-> <<>>, fs |-> 0]

idleReq ==
    [pc |-> "idle", ctx |-> Nil, method |-> "", path |-> <<>>,
     status |-> StatusOK, body |-> <<>>, frames |-> <<>>, trace |-> <<>>,
     calls |-> <<>>,
     match |-> FALSE, err |-> NoErr, lastMatch |-> FALSE, lastErr |-> NoErr, exhausted |-> FALSE,
     released |-> 0, served |-> 0, op |-> "idle", from |-> -1,
     multi |-> FALSE, ctype |-> <<>>, fs |-> 0]

\* sync.Pool.Get: a pooled context, or a new one
poolGet(pl, cs) == pl \cup (IF pl = {} \/ Len(cs) < MaxCtx THEN {Len(cs) + 1} ELSE {})

\* Core.assignCtx at the start of handleRequest
AssignCtx(r, method, path) ==
    /\ serving
    /\ reqs[r].pc \in {"idle", "done"}
    /\ \E cid \in poolGet(pool, ctxs) :
          LET base == IF cid <= Len(ctxs) THEN ctxs[cid] ELSE newCtx
              c == ctxInit(CaseSensitive, base, r, method, path)
          IN /\ ctxs' = IF cid <= Len(ctxs) THEN [ctxs EXCEPT ![cid] = c] ELSE Append(ctxs, c)
             /\ pool' = pool \ {cid}
             /\ reqs' = [reqs EXCEPT ![r] = [newReq(method, path, reqs[r].served + 1)
                                               EXCEPT !.ctx = cid]]
    /\ UNCHANGED <<regVars, procVars, childVars, engVars, newVars, viewVars, concVars, modVars>>

\* Core.releaseCtx, deferred by handleRequest
releaseCtx(r) ==
    LET cid == reqs[r].ctx
    IN /\ ctxs' = [ctxs EXCEPT ![cid].RequestCtx = Nil]
       /\ pool' = pool \cup {cid}

\* handleRequest for a request whose method is not an HTTP method
RejectMethodNoRelease(r) ==
    /\ reqs[r].pc = "assigned"
    /\ ctxs[reqs[r].ctx].methodINT = -1
    /\ reqs' = [reqs EXCEPT ![r] =
                   [SendString([reqs[r] EXCEPT !.status = StatusBadRequest],
                               <<"Invalid http method">>)
                      EXCEPT !.pc = "done", !.op = "reject"]]
    /\ UNCHANGED <<pool, ctxs>>
    /\ UNCHANGED <<regVars, procVars, childVars, engVars, newVars, viewVars, concVars, modVars>>

RejectMethod(r) ==
    /\ reqs[r].pc = "assigned"
    /\ ctxs[reqs[r].ctx].methodINT = -1
    /\ releaseCtx(r)
    /\ reqs' = [reqs EXCEPT ![r] =
                   [SendString([reqs[r] EXCEPT !.status = StatusBadRequest],
                               <<"Invalid http method">>)
                      EXCEPT !.pc = "done", !.released = @ + 1, !.op = "reject"]]
    /\ UNCHANGED <<regVars, procVars, childVars, engVars, newVars, viewVars, concVars, modVars>>

\* handleRequest: the first Core.next call
Dispatch(r) ==
    /\ reqs[r].pc = "assigned"
    /\ ctxs[reqs[r].ctx].methodINT # -1
    /\ LET cid == reqs[r].ctx
           res == coreNext(routes, treeStack, ctxs[cid])
       IN /\ ctxs' = [ctxs EXCEPT ![cid] = res.ctx]
          /\ reqs' = [reqs EXCEPT ![r] =
                         [afterCoreNext(reqs[r], ctxs[cid], res)
                            EXCEPT !.pc = IF res.found THEN "running" ELSE "returning",
                                   !.match = res.found,
                                   !.err = res.err,
                                   !.lastMatch = res.found,
                                   !.lastErr = res.err,
                                   !.op = "core.next",
                                   !.from = ctxs[cid].index]]
    /\ UNCHANGED <<pool>>
    /\ UNCHANGED <<regVars, procVars, childVars, engVars, newVars, viewVars, concVars, modVars>>

\* Ctx.Next, after the increment: a handler of the matched route's chain remains
chainRemainsSkipLast(rs, c) == c.indexHandler + 1 < Len(rs[c.route].Handlers)

chainRemains(rs, c) == c.indexHandler < Len(rs[c.route].Handlers)

\* the running handler calls Ctx.Next
CtxNext(r) ==
    /\ reqs[r].pc = "running"
    /\ LET cid == reqs[r].ctx
           c == ctxs[cid]
           n == Len(reqs[r].frames)
           rq == [reqs[r] EXCEPT !.frames[n].nexts = @ + 1, !.from = c.index,
                                 !.multi = @ \/ reqs[r].frames[n].nexts >= 1]
           c1 == [c EXCEPT !.indexHandler = @ + 1]
       IN /\ reqs[r].frames[n].nexts < MaxNexts
          /\ IF chainRemains(routes, c1)
             THEN LET h == routes[c.route].Handlers[c1.indexHandler + 1]
                  IN /\ ctxs' = [ctxs EXCEPT ![cid] = c1]
                     /\ reqs' = [reqs EXCEPT ![r] =
                                    [rq EXCEPT !.frames = Append(@, [h |-> h, nexts |-> 0]),
                                               !.trace = Append(@, h),
                                               !.calls = Append(@, invocation(c1)),
                                               !.op = "Next:chain"]]
             ELSE LET res == coreNext(routes, treeStack, c1)
                  IN /\ ctxs' = [ctxs EXCEPT ![cid] = res.ctx]
                     /\ reqs' = [reqs EXCEPT ![r] =
                                    [afterCoreNext(rq, c1, res)
                                       EXCEPT !.lastMatch = res.found,
                                              !.lastErr = res.err,
                                              !.op = "Next:core.next"]]
    /\ UNCHANGED <<pool>>
    /\ UNCHANGED <<regVars, procVars, childVars, engVars, newVars, viewVars, concVars, modVars>>

\* the running handler returns to its caller
HandlerReturn(r) ==
    /\ reqs[r].pc = "running"
    /\ LET n == Len(reqs[r].frames)
       IN reqs' = [reqs EXCEPT ![r] =
                      [reqs[r] EXCEPT !.frames = SubSeq(@, 1, n - 1),
                                      !.pc = IF n = 1 THEN "returning" ELSE "running",
                                      !.op = "return"]]
    /\ UNCHANGED <<pool, ctxs>>
    /\ UNCHANGED <<regVars, procVars, childVars, engVars, newVars, viewVars, concVars, modVars>>

\* handleRequest: an error returned by its Core.next call becomes status 500
errStatus(rq) ==
    IF rq.err # NoErr THEN SendStatus(rq, StatusInternalServerError) ELSE rq

\* the tail of handleRequest: the error check and the deferred releaseCtx
Finish(r) ==
    /\ reqs[r].pc = "returning"
    /\ releaseCtx(r)
    /\ reqs' = [reqs EXCEPT ![r] =
                   [errStatus(reqs[r])
                      EXCEPT !.pc = "done", !.released = @ + 1, !.op = "finish"]]
    /\ UNCHANGED <<regVars, procVars, childVars, engVars, newVars, viewVars, concVars, modVars>>

\* ---------------------------------------------------------------- Core.Use
\* the function arguments of a Use call are nHand values of type Hand followed
\* by nPlain values of type func(*Ctx); the k-th pushMethod call would carry
\* them as <<k, 1>> .. <<k, nHand + nPlain>>. The type switch of Use has a
\* case for Hand only, which a value of the unnamed type func(*Ctx) does not
\* take, so only the first nHand reach the handler list.
useHandlers(k, nHand, nPlain) == handlersOf(k, nHand)

\* Core.Use(path, functions...): pathArg is <<>> when no string is passed
Use(pathArg, nHand, nPlain) ==
    /\ ~aborted /\ ~serving
    /\ pushMethodCall(regEntry(methodUse, pathArg, nHand, "Use", nPlain, 0),
                      useHandlers(Len(regs) + 1, nHand, nPlain))
    /\ UNCHANGED <<CaseSensitive, serving>>
    /\ UNCHANGED <<reqVars, procVars, childVars, engVars, newVars, viewVars, concVars, modVars>>

\* the path of a verb method of a handler object: the prefix, then the
\* method's name without its verb ("GetUser" under "/api" is GET /api/user)
fixURI(prefix, rest) == IF rest = <<>> THEN prefix ELSE prefix \o <<Slash>> \o rest

\* Core.buildHandles, the loop over the object's methods of type func(*Ctx)
\* whose names start with a verb; each is one pushMethod call
RECURSIVE buildVerbs(_, _, _, _, _, _)
buildVerbs(st, rg, cs, obj, i, pre) ==
    IF i > Len(obj.verbs) THEN [st |-> st, regs |-> rg]
    ELSE LET v == obj.verbs[i]
             k == Len(rg) + 1
             uri == fixURI(obj.prefix, v.rest)
         IN buildVerbs(pushMethod(st, cs, v.method, uri, handlersOf(k, 1)),
                       Append(rg, regEntry(v.method, uri, 1, "verb", 0, pre)),
                       cs, obj, i + 1, pre)

\* the mutant registers the Preload after the verb routes
buildHandlesPreloadLast(st, rg, cs, obj) ==
    LET p == Len(rg) + 1
        b == buildVerbs(st, Append(rg, regEntry(methodUse, obj.prefix, 1, obj.preload, 0, p)),
                        cs, obj, 1, p)
    IN [st |-> pushMethod(b.st, cs, methodUse, obj.prefix, handlersOf(p, 1)),
        regs |-> b.regs]

\* Core.buildHandles: the Preload as a USE route on the prefix, then the verbs
buildHandles(st, rg, cs, obj) ==
    LET p == Len(rg) + 1
    IN buildVerbs(pushMethod(st, cs, methodUse, obj.prefix, handlersOf(p, 1)),
                  Append(rg, regEntry(methodUse, obj.prefix, 1, obj.preload, 0, p)),
                  cs, obj, 1, p)

\* Core.Use(handlerObject): the handle case of the type switch, after which
\* Use returns without a pushMethod call of its own
UseHandle(obj) ==
    /\ ~aborted /\ ~serving
    /\ LET b == buildHandles(regState, regs, CaseSensitive, obj)
       IN /\ routes' = b.st.routes
          /\ stack' = b.st.stack
          /\ treeStack' = b.st.treeStack
          /\ routesCount' = b.st.routesCount
          /\ regs' = b.regs
    /\ UNCHANGED <<CaseSensitive, serving, aborted>>
    /\ UNCHANGED <<reqVars, procVars, childVars, engVars, newVars, viewVars, concVars, modVars>>

\* ---------------------------------------------------------------- pushStatic
\* the prefix of a static mount: "" is "/", a leading slash is added, the
\* case is folded unless case-sensitive, and a wildcard ends the prefix
RECURSIVE beforeStar(_)
beforeStar(p) == IF p = <<>> \/ p[1] = "*" THEN <<>> ELSE <<p[1]>> \o beforeStar(Tail(p))

staticPrefix(cs, prefix) ==
    LET p1 == IF prefix = <<>> THEN <<Slash>> ELSE prefix
        p2 == IF p1[1] # Slash THEN <<Slash>> \o p1 ELSE p1
    IN IF ~cs THEN ToLower(p2) ELSE p2

\* the route literal of pushStatic: no star field, no routeParser, no pos
staticRoute(cs, prefix, handlers) ==
    LET p == staticPrefix(cs, prefix)
    IN [use |-> TRUE,
        star |-> FALSE,
        root |-> p = <<Slash>>,
        path |-> beforeStar(p),
        const |-> <<>>,
        Params |-> <<>>,
        Path |-> beforeStar(p),
        Method |-> "GET",
        Handlers |-> handlers,
        pos |-> 0]

\* Core.pushStatic: one route object added to the GET and to the HEAD list
pushStatic(st, cs, prefix, handlers) ==
    LET rid == Len(st.routes) + 1
        st0 == [st EXCEPT !.routes = Append(@, staticRoute(cs, prefix, handlers))]
        st1 == addRoute(addRoute(st0, "GET", rid), "HEAD", rid)
    IN IF referenced(st1, rid) THEN st1
       ELSE [st1 EXCEPT !.routes = SubSeq(@, 1, rid - 1)]

Static(prefix) ==
    /\ ~aborted /\ ~serving
    /\ LET k == Len(regs) + 1
           st == pushStatic(regState, CaseSensitive, prefix, handlersOf(k, 1))
       IN /\ routes' = st.routes
          /\ stack' = st.stack
          /\ treeStack' = st.treeStack
          /\ routesCount' = st.routesCount
          /\ regs' = Append(regs, regEntry("GET", prefix, 1, "Static", 0, 0))
    /\ UNCHANGED <<CaseSensitive, serving, aborted>>
    /\ UNCHANGED <<reqVars, procVars, childVars, engVars, newVars, viewVars, concVars, modVars>>

\* what the file-serving collaborator leaves in the response for a status:
\* PathNotFound sets the status only, an error writes its own body
fileResponse(rq, status) ==
    IF status = StatusNotFound THEN [rq EXCEPT !.status = status, !.fs = status]
    ELSE IF status = StatusOK
    THEN [rq EXCEPT !.status = status, !.fs = status,
                    !.body = <<"file">>, !.ctype = <<"file type">>]
    ELSE [rq EXCEPT !.status = status, !.fs = status,
                    !.body = <<"StatusMessage", status>>, !.ctype = <<"text/plain">>]

\* the static handler gives up the file response and falls through
staticFallsThroughOnNotFoundOnly(status) == status = StatusNotFound

staticFallsThrough(status) == status = StatusNotFound \/ status = StatusForbidden

\* the handler on top of request r is a static handler that was just invoked
topHandler(r) == reqs[r].frames[Len(reqs[r].frames)]
topIsStatic(r) == regs[topHandler(r).h[1]].by = "Static"
staticInvoked(r) ==
    /\ reqs[r].pc = "running"
    /\ topIsStatic(r)
    /\ topHandler(r).nexts = 0
    /\ reqs[r].op \in {"core.next", "Next:core.next", "Next:chain"}

\* the static handler up to its return or its Next() call: the file handler
\* answers with some status; on 404 or 403 the response is reset
StaticFile(r, status) ==
    /\ staticInvoked(r)
    /\ reqs' = [reqs EXCEPT ![r] =
                   IF staticFallsThrough(status)
                   THEN [fileResponse(reqs[r], status)
                            EXCEPT !.ctype = <<>>, !.status = StatusOK, !.body = <<>>,
                                   !.op = "static:reset"]
                   ELSE [fileResponse(reqs[r], status) EXCEPT !.op = "static:kept"]]
    /\ UNCHANGED <<pool, ctxs>>
    /\ UNCHANGED <<regVars, procVars, childVars, engVars, newVars, viewVars, concVars, modVars>>

\* Serve: registration is over
Serve ==
    /\ ~aborted /\ ~serving
    /\ serving' = TRUE
    /\ UNCHANGED <<CaseSensitive, routes, stack, treeStack, routesCount, regs, aborted>>
    /\ UNCHANGED <<reqVars, procVars, childVars, engVars, newVars, viewVars, concVars, modVars>>

\* ---------------------------------------------------------------- dispatch specification
RegPaths == { <<"/">>, <<"/", "a", "b", "c">>, <<"/", "*">> }
RegMethods == {"USE", "GET", "POST"}
ReqPaths == { <<"/">>, <<"/", "a", "b", "c">>, <<"/", "A", "b", "d", "/">> }
ReqMethods == {"GET", "POST", "BAD"}

\* the state New leaves behind, family by family
InitCore(cs) ==
    /\ CaseSensitive = cs
    /\ routes = <<>>
    /\ stack = [m \in MethodIdx |-> <<>>]
    /\ treeStack = [m \in MethodIdx |-> <<>>]
    /\ routesCount = 0
    /\ regs = <<>>
    /\ aborted = FALSE
    /\ serving = FALSE
    /\ pool = {}
    /\ ctxs = <<>>
    /\ reqs = [r \in ReqIds |-> idleReq]

InitProc ==
    /\ childs = [pid \in Pids |-> 0]
    /\ channel = <<>>
    /\ cmds = <<>>
    /\ parent = [pc |-> "start", i |-> 0, err |-> NoErr, from |-> 0]

InitChild ==
    /\ worker = [k \in Pids |-> newWorker(MasterPid)]
    /\ master = [alive |-> TRUE, pid |-> MasterPid, reaper |-> InitPid, goos |-> "linux"]

InitEng == engine = newEngine("single", <<>>)

InitApp == app = newCall(<<>>, TRUE)

InitAdders == adders = <<>>

InitModules ==
    /\ modules = {}
    /\ got = [scope |-> <<>>, mods |-> <<>>, called |-> FALSE]

InitView ==
    /\ ve = newView("", FALSE)
    /\ rend = [r \in ReqIds |-> idleRender]

Init ==
    /\ InitCore(FALSE)
    /\ InitProc
    /\ InitChild
    /\ InitEng
    /\ InitApp
    /\ InitView
    /\ InitAdders
    /\ InitModules

\* registrations with one handler each
RegisterD ==
    /\ Len(regs) < MaxRegs
    /\ \E method \in RegMethods, pathRaw \in RegPaths : Register(method, pathRaw, 1)

\* a single request
Request ==
    /\ reqs[1].pc = "idle"
    /\ \E method \in ReqMethods, path \in ReqPaths : AssignCtx(1, method, path)

Next ==
    \/ RegisterD
    \/ Serve
    \/ Request
    \/ RejectMethod(1)
    \/ Dispatch(1)
    \/ CtxNext(1)
    \/ HandlerReturn(1)
    \/ Finish(1)

Spec == Init /\ [][Next]_vars

\* ---------------------------------------------------------------- pool specification
\* concurrent request goroutines sharing the context pool
RegPathsP == { <<"/", "*">> }
RegMethodsP == {"GET"}
ReqPathsP == { <<"/", "a", "b", "c">>, <<"/", "x">> }
ReqMethodsP == {"GET", "BAD"}

RegisterP ==
    /\ regs = <<>>
    /\ \E method \in RegMethodsP, pathRaw \in RegPathsP : Register(method, pathRaw, 1)

RECURSIVE servedUpTo(_)
servedUpTo(r) == IF r = 0 THEN 0 ELSE reqs[r].served + servedUpTo(r - 1)

RequestP ==
    /\ servedUpTo(NumReqs) < MaxServedP
    /\ \E r \in ReqIds, method \in ReqMethodsP, path \in ReqPathsP :
           AssignCtx(r, method, path)

NextPool ==
    \/ RegisterP
    \/ Serve
    \/ RequestP
    \/ \E r \in ReqIds : RejectMethod(r)
    \/ \E r \in ReqIds : Dispatch(r)
    \/ \E r \in ReqIds : CtxNext(r)
    \/ \E r \in ReqIds : HandlerReturn(r)
    \/ \E r \in ReqIds : Finish(r)

SpecPool == Init /\ [][NextPool]_vars

\* ---------------------------------------------------------------- registration-only specification
RegPathsR == { <<>>, <<"/">>, <<"/", "a", "b", "c">>, <<"/", "A", "b", "c", "/">>, <<"/", "*">> }
RegMethodsR == {"USE", "GET", "BAD"}

InitReg ==
    /\ \E cs \in BOOLEAN : InitCore(cs)
    /\ InitProc
    /\ InitChild
    /\ InitEng
    /\ InitApp
    /\ InitView
    /\ InitAdders
    /\ InitModules

RegisterR ==
    /\ Len(regs) < MaxRegsR
    /\ \E method \in RegMethodsR, pathRaw \in RegPathsR, n \in 0..MaxHands :
           Register(method, pathRaw, n)

NextReg == RegisterR

SpecReg == InitReg /\ [][NextReg]_vars

\* ---------------------------------------------------------------- bucket specification
\* one request against routes with literal prefixes of three characters,
\* one of them followed by an optional final parameter
RegPathsB == { <<"/", "a", "/", ":", "i", "?">>, <<"/", "a", "b", "c">>, <<"/", "*">> }
RegMethodsB == {"GET", "POST"}
ReqPathsB == { <<"/", "a">>, <<"/", "a", "/", "x">>, <<"/", "a", "b", "c">> }
ReqMethodsB == {"GET", "BAD"}

RegisterB ==
    /\ Len(regs) < MaxRegsB
    /\ \E method \in RegMethodsB, pathRaw \in RegPathsB : Register(method, pathRaw, 1)

RequestB ==
    /\ reqs[1].pc = "idle"
    /\ \E method \in ReqMethodsB, path \in ReqPathsB : AssignCtx(1, method, path)

NextBucket ==
    \/ RegisterB
    \/ Serve
    \/ RequestB
    \/ RejectMethod(1)
    \/ Dispatch(1)
    \/ CtxNext(1)
    \/ HandlerReturn(1)
    \/ Finish(1)

SpecBucket == Init /\ [][NextBucket]_vars

\* ---------------------------------------------------------------- chain specification
\* registrations that share paths, so that chains of several handlers and
\* several matching routes arise; then one request, whose
\* handlers call Next up to MaxNexts times each and return
RegPathsN == { <<"/">>, <<"/", "a", "b", "c">> }
RegMethodsN == {"USE", "GET"}
ReqPathsN == { <<"/", "a", "b", "c">> }
ReqMethodsN == {"GET", "POST"}

RegisterN ==
    /\ Len(regs) < MaxRegsN
    /\ \E method \in RegMethodsN, pathRaw \in RegPathsN : Register(method, pathRaw, 1)

RequestN ==
    /\ reqs[1].pc = "idle"
    /\ \E method \in ReqMethodsN, path \in ReqPathsN : AssignCtx(1, method, path)

NextChain ==
    \/ RegisterN
    \/ Serve
    \/ RequestN
    \/ Dispatch(1)
    \/ CtxNext(1)
    \/ HandlerReturn(1)
    \/ Finish(1)

\* the request goroutine keeps running: handleRequest makes its Core.next
\* call, every handler returns, and handleRequest then finishes
SpecChain ==
    /\ Init
    /\ [][NextChain]_vars
    /\ WF_vars(Dispatch(1))
    /\ WF_vars(HandlerReturn(1))
    /\ WF_vars(Finish(1))

\* ---------------------------------------------------------------- handler-object specification
\* Use with functions and with handler objects, then one request.
\* A handler object: its prefix, whether its Preload is the one inherited from
\* Handler or its own, and its verb methods in the order reflection lists them
HandleObjs ==
    { [prefix |-> <<"/", "a", "b", "c">>, preload |-> "Preload",
       verbs |-> << [method |-> "GET", rest |-> <<"x">>] >>],
      [prefix |-> <<>>, preload |-> "Handler.Preload",
       verbs |-> << [method |-> "GET", rest |-> <<>>] >>] }
UsePaths == { <<>>, <<"/", "a", "b", "c">> }
ReqPathsU == { <<"/">>, <<"/", "a", "b", "c", "/", "x">> }
ReqMethodsU == {"GET", "POST"}

UseFuncs ==
    /\ Len(regs) < MaxUses
    /\ \E pathArg \in UsePaths, nHand \in 0..1, nPlain \in 0..1 :
           /\ nHand + nPlain >= 1
           /\ Use(pathArg, nHand, nPlain)

UseObject ==
    /\ Len(regs) < MaxUses
    /\ \E obj \in HandleObjs : UseHandle(obj)

RequestU ==
    /\ reqs[1].pc = "idle"
    /\ \E method \in ReqMethodsU, path \in ReqPathsU : AssignCtx(1, method, path)

\* the handler running on top of request r is Handler.Preload, whose body is
\* the single statement c.Next()
runsHandlerPreload(r) ==
    regs[reqs[r].frames[Len(reqs[r].frames)].h[1]].by = "Handler.Preload"
nextsOfTop(r) == reqs[r].frames[Len(reqs[r].frames)].nexts

CtxNextU ==
    /\ reqs[1].pc = "running"
    /\ runsHandlerPreload(1) => nextsOfTop(1) = 0
    /\ CtxNext(1)

HandlerReturnU ==
    /\ reqs[1].pc = "running"
    /\ runsHandlerPreload(1) => nextsOfTop(1) = 1
    /\ HandlerReturn(1)

NextUse ==
    \/ UseFuncs
    \/ UseObject
    \/ Serve
    \/ RequestU
    \/ Dispatch(1)
    \/ CtxNextU
    \/ HandlerReturnU
    \/ Finish(1)

SpecUse == Init /\ [][NextUse]_vars

\* ---------------------------------------------------------------- static-mount specification
\* a static mount and dynamic routes, then one request
StaticPrefixes == { <<>>, <<"/", "a", "b", "c">> }
RegPathsS == { <<"/", "*">>, <<"/", "a", "b", "c">> }
ReqPathsS == { <<"/", "a", "b", "c">>, <<"/", "x">> }
ReqMethodsS == {"GET", "HEAD"}
\* answers of the file-serving collaborator
FsStatuses == {StatusOK, StatusForbidden, StatusNotFound, StatusInternalServerError}

StaticS ==
    /\ Len(regs) < MaxRegsS
    /\ \E prefix \in StaticPrefixes : Static(prefix)

RegisterS ==
    /\ Len(regs) < MaxRegsS
    /\ \E pathRaw \in RegPathsS : Register("GET", pathRaw, 1)

RequestS ==
    /\ reqs[1].pc = "idle"
    /\ \E method \in ReqMethodsS, path \in ReqPathsS : AssignCtx(1, method, path)

StaticFileS == \E status \in FsStatuses : StaticFile(1, status)

\* a static handler calls Next() once, after the reset, and nowhere else
CtxNextS ==
    /\ reqs[1].pc = "running"
    /\ ~staticInvoked(1)
    /\ topIsStatic(1) => reqs[1].op = "static:reset"
    /\ CtxNext(1)

HandlerReturnS ==
    /\ reqs[1].pc = "running"
    /\ ~staticInvoked(1)
    /\ topIsStatic(1) => reqs[1].op # "static:reset"
    /\ HandlerReturn(1)

NextStatic ==
    \/ StaticS
    \/ RegisterS
    \/ Serve
    \/ RequestS
    \/ Dispatch(1)
    \/ StaticFileS
    \/ CtxNextS
    \/ HandlerReturnS
    \/ Finish(1)

SpecStatic == Init /\ [][NextStatic]_vars

\* ---------------------------------------------------------------- Core.prefork (parent)
\* what cmd.Wait() returns for a child that exits by itself, and for a killed one
ExitErrs == {NoErr, "exit status 1"}
ErrKilled == "signal: killed"
ErrStart == "failed to start a child prefork process"

CmdIds == 1..Len(cmds)
freePid(pid) == \A k \in CmdIds : cmds[k].pid = pid => cmds[k].state = "reaped"

\* the deferred function: Process.Kill() on every entry of the childs map
deferredKillSkipsFirstPid(cs, ch) ==
    [k \in 1..Len(cs) |->
        IF \E pid \in Pids : pid > 1 /\ ch[pid] = k THEN [cs[k] EXCEPT !.killed = TRUE] ELSE cs[k]]

deferredKill(cs, ch) ==
    [k \in 1..Len(cs) |->
        IF \E pid \in Pids : ch[pid] = k THEN [cs[k] EXCEPT !.killed = TRUE] ELSE cs[k]]

\* one iteration of the loop whose cmd.Start() succeeds: the command enters
\* the map under its pid and a goroutine waits for it
StartChild(pid) ==
    /\ parent.pc = "start"
    /\ parent.i < MaxProcs
    /\ freePid(pid)
    /\ cmds' = Append(cmds, [pid |-> pid, state |-> "running", err |-> NoErr,
                             killed |-> FALSE, waiter |-> "Wait", order |-> 0])
    /\ childs' = [childs EXCEPT ![pid] = Len(cmds) + 1]
    /\ parent' = [parent EXCEPT !.i = @ + 1,
                                !.pc = IF parent.i + 1 < MaxProcs THEN "start" ELSE "receive"]
    /\ UNCHANGED channel
    /\ UNCHANGED <<regVars, reqVars, childVars, engVars, newVars, viewVars, concVars, modVars>>

\* one iteration whose cmd.Start() fails: the error is returned at once and
\* the deferred function runs
StartFails ==
    /\ parent.pc = "start"
    /\ parent.i < MaxProcs
    /\ cmds' = deferredKill(cmds, childs)
    /\ parent' = [parent EXCEPT !.pc = "returned", !.err = ErrStart]
    /\ UNCHANGED <<childs, channel>>
    /\ UNCHANGED <<regVars, reqVars, childVars, engVars, newVars, viewVars, concVars, modVars>>

\* a child process ends: by itself with some result, or by the kill
ChildExit(k, e) ==
    /\ k \in CmdIds
    /\ cmds[k].state = "running"
    /\ cmds' = [cmds EXCEPT ![k].state = "exited",
                            ![k].err = IF cmds[k].killed THEN ErrKilled ELSE e,
                            ![k].order = 1 + Cardinality({j \in CmdIds : cmds[j].order > 0})]
    /\ UNCHANGED <<childs, channel, parent>>
    /\ UNCHANGED <<regVars, reqVars, childVars, engVars, newVars, viewVars, concVars, modVars>>

\* the goroutine of command k: cmd.Wait() returns, the process is collected
WaitReturns(k) ==
    /\ k \in CmdIds
    /\ cmds[k].state = "exited"
    /\ cmds[k].waiter = "Wait"
    /\ cmds' = [cmds EXCEPT ![k].state = "reaped", ![k].waiter = "send"]
    /\ UNCHANGED <<childs, channel, parent>>
    /\ UNCHANGED <<regVars, reqVars, childVars, engVars, newVars, viewVars, concVars, modVars>>

\* the goroutine of command k: channel <- child{pid, err}; the buffer holds
\* max values, so the send never blocks
ChannelSend(k) ==
    /\ k \in CmdIds
    /\ cmds[k].waiter = "send"
    /\ channel' = Append(channel, [pid |-> cmds[k].pid, err |-> cmds[k].err, cmd |-> k])
    /\ cmds' = [cmds EXCEPT ![k].waiter = "sent"]
    /\ UNCHANGED <<childs, parent>>
    /\ UNCHANGED <<regVars, reqVars, childVars, engVars, newVars, viewVars, concVars, modVars>>

\* return (<-channel).err, then the deferred function
ChannelReceive ==
    /\ parent.pc = "receive"
    /\ channel # <<>>
    /\ parent' = [parent EXCEPT !.pc = "returned", !.err = Head(channel).err,
                                !.from = Head(channel).cmd]
    /\ channel' = Tail(channel)
    /\ cmds' = deferredKill(cmds, childs)
    /\ UNCHANGED childs
    /\ UNCHANGED <<regVars, reqVars, childVars, engVars, newVars, viewVars, concVars, modVars>>

NextPrefork ==
    \/ \E pid \in Pids : StartChild(pid)
    \/ StartFails
    \/ \E k \in 1..MaxProcs, e \in ExitErrs : ChildExit(k, e)
    \/ \E k \in 1..MaxProcs : WaitReturns(k)
    \/ \E k \in 1..MaxProcs : ChannelSend(k)
    \/ ChannelReceive

SpecPrefork == Init /\ [][NextPrefork]_vars

\* ---------------------------------------------------------------- Core.prefork (child), watchMaster
\* the systems a child runs on: its GOOS, the pid of its parent, and the
\* process orphans are handed to when their parent exits
GoosSet == {"linux", "windows"}
MasterPids == {InitPid, MasterPid}
Reapers == {InitPid, SubreaperPid}
ErrListen == "listen failed"
ErrServe == "serve returned"
ExitOne == "exit status 1"

living(k) == worker[k].pc \in {"listen", "serving"}

\* the child branch of prefork up to Server.Serve: reuseport.Listen, then
\* Go(watchMaster); a failed listen returns the error and starts no watcher
ChildListen(k, ok) ==
    /\ worker[k].pc = "listen"
    /\ worker' = [worker EXCEPT ![k] =
                     IF ok THEN [@ EXCEPT !.pc = "serving", !.watch = TRUE]
                     ELSE [@ EXCEPT !.pc = "exited", !.err = ErrListen]]
    /\ UNCHANGED master
    /\ UNCHANGED <<regVars, reqVars, procVars, engVars, newVars, viewVars, concVars, modVars>>

\* Server.Serve returns in the child and the process ends
ChildServeReturns(k) ==
    /\ worker[k].pc = "serving"
    /\ worker' = [worker EXCEPT ![k] = [@ EXCEPT !.pc = "exited", !.err = ErrServe]]
    /\ UNCHANGED master
    /\ UNCHANGED <<regVars, reqVars, procVars, engVars, newVars, viewVars, concVars, modVars>>

\* the parent process ends without its deferred kills (it is killed, or it
\* crashes): the system hands its living children to the reaper; when the
\* parent is the init process itself every process ends with it
MasterExits ==
    /\ master.alive
    /\ master' = [master EXCEPT !.alive = FALSE]
    /\ worker' = [k \in Pids |->
                     IF ~living(k) THEN worker[k]
                     ELSE IF master.pid = InitPid
                     THEN [worker[k] EXCEPT !.pc = "exited", !.err = ErrKilled]
                     ELSE IF master.goos = "windows" THEN worker[k]
                     ELSE [worker[k] EXCEPT !.ppid = master.reaper]]
    /\ UNCHANGED <<regVars, reqVars, procVars, engVars, newVars, viewVars, concVars, modVars>>

\* the test of watchMaster's loop body
parentGone(ppid) == ppid = InitPid

\* one tick of watchMaster's 500 ms ticker: os.Exit(1) when the parent pid is 1
WatchTick(k) ==
    /\ worker[k].pc = "serving"
    /\ worker[k].watch
    /\ master.goos # "windows"
    /\ worker' = [worker EXCEPT ![k] =
                     IF parentGone(worker[k].ppid)
                     THEN [@ EXCEPT !.pc = "exited", !.err = ExitOne]
                     ELSE @]
    /\ UNCHANGED master
    /\ UNCHANGED <<regVars, reqVars, procVars, engVars, newVars, viewVars, concVars, modVars>>

\* watchMaster on windows: the Wait on the parent process returns once the
\* parent has ended, then os.Exit(1)
WatchWait(k) ==
    /\ worker[k].pc = "serving"
    /\ worker[k].watch
    /\ master.goos = "windows"
    /\ ~master.alive
    /\ worker' = [worker EXCEPT ![k] = [@ EXCEPT !.pc = "exited", !.err = ExitOne]]
    /\ UNCHANGED master
    /\ UNCHANGED <<regVars, reqVars, procVars, engVars, newVars, viewVars, concVars, modVars>>

InitWatch ==
    /\ InitCore(FALSE)
    /\ childs = [pid \in Pids |-> 0]
    /\ channel = <<>>
    /\ cmds = <<>>
    /\ parent = [pc |-> "receive", i |-> MaxProcs, err |-> NoErr, from |-> 0]
    /\ \E goos \in GoosSet, mp \in MasterPids, rp \in Reapers :
          /\ master = [alive |-> TRUE, pid |-> mp, reaper |-> rp, goos |-> goos]
          /\ worker = [k \in Pids |-> newWorker(mp)]
    /\ InitEng
    /\ InitApp
    /\ InitView
    /\ InitAdders
    /\ InitModules

NextWatch ==
    \/ \E k \in Pids, ok \in BOOLEAN : ChildListen(k, ok)
    \/ \E k \in Pids : ChildServeReturns(k)
    \/ MasterExits
    \/ \E k \in Pids : WatchTick(k)
    \/ \E k \in Pids : WatchWait(k)

\* the ticker keeps firing and a finished Wait returns
SpecWatch ==
    /\ InitWatch
    /\ [][NextWatch]_vars
    /\ \A k \in Pids : WF_vars(WatchTick(k) /\ worker'[k] # worker[k])
    /\ \A k \in Pids : WF_vars(WatchWait(k))

\* ---------------------------------------------------------------- Engine
\* the process is a single-process server, a prefork parent or a prefork child
Roles == {"single", "parent", "child"}
\* a module instance m.New() returns: its ID, whether it has an Exit method,
\* a Preload method (hasHand), a LastHook method (hasHook), and whether it
\* implements the whole handle interface, in which case obj describes it as
\* a handler object
moduleOf(id, exit, hand, hook, handle, obj) ==
    [id |-> id, exit |-> exit, hand |-> hand, hook |-> hook, handle |-> handle,
     obj |-> obj]
noObj == [prefix |-> <<>>, preload |-> "Preload", verbs |-> <<>>]
\* a module that has at most an Exit hook
bareModule(id, exit) == moduleOf(id, exit, FALSE, FALSE, FALSE, noObj)
\* the modules GetModules("module") returns, each with or without an Exit hook
ModuleLists ==
    {<<>>, <<bareModule(<<"m", ".", "a">>, TRUE)>>,
     <<bareModule(<<"m", ".", "a">>, FALSE), bareModule(<<"m", ".", "b">>, TRUE)>>}

\* the case the type switch of Core.Use takes for one argument; the cases
\* are tried in the order string, Module, Hand, handle, and an argument that
\* fits none is skipped
useCase(arg) ==
    IF arg.string THEN "string"
    ELSE IF arg.module THEN "Module"
    ELSE IF arg.hand THEN "Hand"
    ELSE IF arg.handle THEN "handle"
    ELSE "none"

\* the argument of e.core.Use(mod): the instance came from ModuleInfo.New,
\* so it is a Module whatever else it implements
moduleArg(mod) ==
    [string |-> FALSE, module |-> TRUE, hand |-> FALSE, handle |-> mod.handle,
     id |-> mod.id, obj |-> mod.obj]
\* the argument of e.core.Use(hook.LastHook): a method value of the unnamed
\* type func(*Ctx)
hookArg(mod) ==
    [string |-> FALSE, module |-> FALSE, hand |-> FALSE, handle |-> FALSE,
     id |-> mod.id, obj |-> noObj]

\* Core.Use(arg) on the core c = [st, regs, aborted, modules]: the Module
\* case registers the module again, the handle case builds the object's
\* routes and returns, every other path ends in pushMethod("USE", "", handlers)
coreUse(c, cs, arg) ==
    LET k == useCase(arg)
        mods1 == IF k = "Module" THEN c.modules \cup {arg.id} ELSE c.modules
        hs == IF k = "Hand" THEN handlersOf(Len(c.regs) + 1, 1) ELSE <<>>
        rec == regEntry(methodUse, <<>>, Len(hs), "Use", IF k = "none" THEN 1 ELSE 0, 0)
    IN IF k = "handle"
       THEN LET b == buildHandles(c.st, c.regs, cs, arg.obj)
            IN [c EXCEPT !.st = b.st, !.regs = b.regs]
       ELSE IF pushMethodPanics(methodUse, hs)
       THEN [c EXCEPT !.modules = mods1, !.aborted = TRUE,
                      !.regs = Append(@, [rec EXCEPT !.ok = FALSE])]
       ELSE [c EXCEPT !.modules = mods1,
                      !.st = pushMethod(c.st, cs, methodUse, <<>>, hs),
                      !.regs = Append(@, rec)]

\* Engine.Exit, deferred by Engine.Serve: the Exit hook of every entry of modexit
engineExit(e) == [e EXCEPT !.pc = "returned", !.exited = e.modexit]

\* the two Use calls of one iteration of Serve's loop on the core c: the
\* module itself when it has a Preload method, then its LastHook method
\* when it has one and the first call did not panic
useModule(c, cs, mod) == IF mod.hand THEN coreUse(c, cs, moduleArg(mod)) ELSE c
useHook(c, cs, mod) ==
    IF ~c.aborted /\ mod.hook THEN coreUse(c, cs, hookArg(mod)) ELSE c

\* the state one iteration of Serve's loop leaves: e is the engine after the
\* iteration, c the core after its Use calls. A panic of Use unwinds Serve:
\* the deferred Exit runs and the process ends
loaded(e, c) ==
    /\ engine' = IF c.aborted THEN [engineExit(e) EXCEPT !.pc = "panicked"] ELSE e
    /\ routes' = c.st.routes
    /\ stack' = c.st.stack
    /\ treeStack' = c.st.treeStack
    /\ routesCount' = c.st.routesCount
    /\ regs' = c.regs
    /\ aborted' = c.aborted
    /\ modules' = c.modules

\* one iteration of Serve's loop: the module is created; with an Exit method
\* it is appended to modexit, with a Preload method it is passed to Core.Use,
\* with a LastHook method that method is passed to Core.Use
LoadModule ==
    /\ engine.pc = "modules"
    /\ engine.i < Len(engine.mods)
    /\ loaded([engine EXCEPT !.i = @ + 1,
                             !.modexit = IF engine.mods[engine.i + 1].exit
                                         THEN Append(@, engine.i + 1) ELSE @],
              useHook(useModule([st |-> regState, regs |-> regs, aborted |-> aborted,
                                 modules |-> modules],
                                CaseSensitive, engine.mods[engine.i + 1]),
                      CaseSensitive, engine.mods[engine.i + 1]))
    /\ UNCHANGED <<CaseSensitive, serving, got>>
    /\ UNCHANGED <<reqVars, procVars, childVars, newVars, viewVars, concVars>>

\* Core.Serve: with Prefork set and no child mark in the environment the
\* parent branch of prefork starts the children and blocks on the channel;
\* otherwise the listener is opened and Server.Serve runs, or the failed
\* listen is returned
CoreServe(ok) ==
    /\ engine.pc = "modules"
    /\ engine.i = Len(engine.mods)
    /\ engine' = IF engine.role = "parent"
                 THEN [engine EXCEPT !.pc = "prefork", !.kids = MaxProcs]
                 ELSE IF ok THEN [engine EXCEPT !.pc = "serving", !.ln = "open"]
                 ELSE engineExit([engine EXCEPT !.err = ErrListen])
    /\ UNCHANGED <<regVars, reqVars, procVars, childVars, newVars, viewVars, concVars, modVars>>

\* a shutdown signal reaches the process: signal.Notify sends it on quit
\* without blocking, so it is dropped when the one-slot buffer is full
Signal ==
    /\ engine.pc \notin {"returned", "panicked"}
    /\ engine.sigs < MaxSignals
    /\ engine' = [engine EXCEPT !.sigs = @ + 1, !.quit = 1]
    /\ UNCHANGED <<regVars, reqVars, procVars, childVars, newVars, viewVars, concVars, modVars>>

\* Server.Shutdown: closes the listener the server serves on; a server that
\* has no listener is left as it is
Shutdown(ln) == IF ln = "open" THEN "closed" ELSE ln

\* Engine.looper: receives one signal and calls Server.Shutdown
Looper ==
    /\ engine.quit > 0
    /\ engine' = [engine EXCEPT !.quit = @ - 1,
                                !.shutdowns = IF @ < MaxSignals THEN @ + 1 ELSE @,
                                !.ln = Shutdown(@)]
    /\ UNCHANGED <<regVars, reqVars, procVars, childVars, newVars, viewVars, concVars, modVars>>

\* Server.Serve returns once its listener is closed; Serve's deferred Exit runs
ServeReturns ==
    /\ engine.pc = "serving"
    /\ engine.ln = "closed"
    /\ engine' = engineExit(engine)
    /\ UNCHANGED <<regVars, reqVars, procVars, childVars, newVars, viewVars, concVars, modVars>>

\* a child of the prefork parent ends and prefork returns its exit result
KidExits ==
    /\ engine.pc = "prefork"
    /\ engine' = engineExit([engine EXCEPT !.kids = @ - 1, !.err = ExitOne])
    /\ UNCHANGED <<regVars, reqVars, procVars, childVars, newVars, viewVars, concVars, modVars>>

InitEngine ==
    /\ InitCore(FALSE)
    /\ InitProc
    /\ InitChild
    /\ \E role \in Roles, mods \in ModuleLists : engine = newEngine(role, mods)
    /\ InitApp
    /\ InitView
    /\ InitAdders
    /\ InitModules

NextEngine ==
    \/ LoadModule
    \/ \E ok \in BOOLEAN : CoreServe(ok)
    \/ Signal
    \/ Looper
    \/ ServeReturns
    \/ KidExits

\* the goroutines of the process keep running; signals and the end of a
\* child come from outside
SpecEngine ==
    /\ InitEngine
    /\ [][NextEngine]_vars
    /\ WF_vars(LoadModule)
    /\ WF_vars(\E ok \in BOOLEAN : CoreServe(ok))
    /\ WF_vars(Looper)
    /\ WF_vars(ServeReturns)

\* ---------------------------------------------------------------- Engine.Serve with handler modules
\* a handler object a module may be: its own Preload and one verb method
ModuleObj ==
    [prefix |-> <<"/", "a", "b", "c">>, preload |-> "Preload",
     verbs |-> << [method |-> "GET", rest |-> <<"x">>] >>]
\* the modules under scope "module": any combination of Exit, Preload and
\* LastHook; a module with a Preload may implement the handle interface
ServeModules ==
    { moduleOf(<<"m", ".", "a">>, exit, hand, hook, hand /\ full,
               IF hand /\ full THEN ModuleObj ELSE noObj) :
        exit \in BOOLEAN, hand \in BOOLEAN, hook \in BOOLEAN, full \in BOOLEAN }
ServeLists ==
    { <<mod>> : mod \in ServeModules } \cup
    { <<bareModule(<<"m", ".", "b">>, TRUE), mod>> : mod \in ServeModules }

InitServe ==
    /\ \E cs \in BOOLEAN : InitCore(cs)
    /\ InitProc
    /\ InitChild
    /\ \E role \in Roles, mods \in ServeLists :
           /\ engine = newEngine(role, mods)
           /\ modules = { mods[i].id : i \in 1..Len(mods) }
    /\ got = [scope |-> <<>>, mods |-> <<>>, called |-> FALSE]
    /\ InitApp
    /\ InitView
    /\ InitAdders

NextServe ==
    \/ LoadModule
    \/ \E ok \in BOOLEAN : CoreServe(ok)

SpecServe == InitServe /\ [][NextServe]_vars

\* a pushMethod call that registered a USE route with a handler
preloadRegistered ==
    \E k \in 1..Len(regs) : regs[k].ok /\ regs[k].method = methodUse /\ regs[k].n >= 1

\* C27: once Serve's loop has handled a module that has a Preload method,
\* the module is registered as a handler on the core (a USE route carries
\* its Preload) and start-up has not aborted
C27_ServeRegistersPreloadModules ==
    \A i \in 1..engine.i :
        engine.mods[i].hand =>
            /\ ~aborted
            /\ engine.pc # "panicked"
            /\ preloadRegistered

\* ---------------------------------------------------------------- New, Core.init
\* &Options{}: every field zero, the embedded *Db nil (<<>>)
zeroOptions ==
    [BodyLimit |-> 0, Concurrency |-> 0, ReadBufferSize |-> 0, WriteBufferSize |-> 0,
     ServerName |-> "", CompressedFileSuffix |-> "", Db |-> <<>>]

\* the assignments of defaults at the head of Core.init
withDefaults(o) ==
    [o EXCEPT !.BodyLimit = IF @ <= 0 THEN DefaultBodyLimit ELSE @,
              !.Concurrency = IF @ <= 0 THEN DefaultConcurrency ELSE @,
              !.ReadBufferSize = IF @ <= 0 THEN DefaultBufferSize ELSE @,
              !.WriteBufferSize = IF @ <= 0 THEN DefaultBufferSize ELSE @,
              !.ServerName = IF @ = "" THEN "Cola" ELSE @,
              !.CompressedFileSuffix = IF @ = "" THEN ".gz" ELSE @]

\* Core.init after New has stored the options: the defaults, then the read
\* of c.Options.Db.Driver, which goes through the embedded *Db and panics
\* when that pointer is nil; a database that cannot be opened ends the
\* process; otherwise the server is built from the options
coreInit(call) ==
    LET o == withDefaults(IF call.opts = <<>> THEN zeroOptions ELSE call.opts[1])
    IN IF o.Db = <<>>
       THEN [call EXCEPT !.pc = "panicked"]
       ELSE IF o.Db[1].Driver # "" /\ o.Db[1].DSN # "" /\ ~call.dbOK
       THEN [call EXCEPT !.pc = "exited"]
       ELSE [call EXCEPT !.pc = "returned",
                         !.core = <<[Options |-> o,
                                     Server |-> [Name |-> o.ServerName,
                                                 Concurrency |-> o.Concurrency,
                                                 ReadBufferSize |-> o.ReadBufferSize,
                                                 WriteBufferSize |-> o.WriteBufferSize,
                                                 MaxRequestBodySize |-> o.BodyLimit]]>>]

New ==
    /\ app.pc = "call"
    /\ app' = coreInit(app)
    /\ UNCHANGED <<regVars, reqVars, procVars, childVars, engVars, viewVars, concVars, modVars>>

\* the *Options values passed to New
DbSet == {<<>>, <<[Driver |-> "", DSN |-> ""]>>, <<[Driver |-> "mysql", DSN |-> "dsn"]>>}
OptionsSet ==
    [BodyLimit : {-1, 0, 1024}, Concurrency : {0, 16}, ReadBufferSize : {0, 8192},
     WriteBufferSize : {0, 8192}, ServerName : {"", "srv"},
     CompressedFileSuffix : {"", ".br"}, Db : DbSet]

InitNew ==
    /\ InitCore(FALSE)
    /\ InitProc
    /\ InitChild
    /\ InitEng
    /\ \E opts \in {<<>>} \cup {<<o>> : o \in OptionsSet}, dbOK \in BOOLEAN :
          app = newCall(opts, dbOK)
    /\ InitView
    /\ InitAdders
    /\ InitModules

NextNew == New

SpecNew == InitNew /\ [][NextNew]_vars

\* ---------------------------------------------------------------- Ctx.Render, ViewEngine.ExecuteWriter
\* request r binds its own data (named r) and renders to its own body
\* writer (named r). A write is recorded in the writer's request as
\* [data |-> whose binding was rendered, by |-> whose Render call wrote it].
written(rs, out, data, by) == [rs EXCEPT ![out].out = Append(@, [data |-> data, by |-> by])]

\* Ctx.Render: the binding is built from the request's own context and
\* ExecuteWriter is called with the request's body writer
RenderCall(r) ==
    /\ rend[r].pc = "idle"
    /\ rend' = [rend EXCEPT ![r].pc = "ExecuteWriter"]
    /\ UNCHANGED ve
    /\ UNCHANGED <<regVars, reqVars, procVars, childVars, engVars, newVars, concVars, modVars>>

\* ExecuteWriter: ve.binding = binding, a store to the engine's field
SetBinding(r) ==
    /\ rend[r].pc = "ExecuteWriter"
    /\ ve' = [ve EXCEPT !.binding = r]
    /\ rend' = [rend EXCEPT ![r].pc = IF ve.layout # "" THEN "Funcs" ELSE "Execute",
                            ![r].cur = <<[out |-> r, binding |-> r]>>]
    /\ UNCHANGED <<regVars, reqVars, procVars, childVars, engVars, newVars, concVars, modVars>>

\* ExecuteWriter with a layout: lay.Funcs installs, under the layout's yield
\* name, a closure over this call's out, binding and template
SetYield(r) ==
    /\ rend[r].pc = "Funcs"
    /\ ve' = [ve EXCEPT !.yield = <<[out |-> r, binding |-> r]>>]
    /\ rend' = [rend EXCEPT ![r].pc = "ExecuteLayout"]
    /\ UNCHANGED <<regVars, reqVars, procVars, childVars, engVars, newVars, concVars, modVars>>

\* lay.Execute(out, binding): the layout's own text, up to its yield call
ExecuteLayout(r) ==
    /\ rend[r].pc = "ExecuteLayout"
    /\ rend' = [written(rend, r, r, r) EXCEPT ![r].pc = "yield"]
    /\ UNCHANGED ve
    /\ UNCHANGED <<regVars, reqVars, procVars, childVars, engVars, newVars, concVars, modVars>>

\* the layout calls the function now installed under the yield name
CallYield(r) ==
    /\ rend[r].pc = "yield"
    /\ rend' = [rend EXCEPT ![r].pc = "Execute", ![r].cur = ve.yield]
    /\ UNCHANGED ve
    /\ UNCHANGED <<regVars, reqVars, procVars, childVars, engVars, newVars, concVars, modVars>>

\* tmpl.Execute(out, binding) with the out and binding of the running closure
\* (the call's own when there is no layout)
ExecuteTemplate(r) ==
    /\ rend[r].pc = "Execute"
    /\ LET cl == rend[r].cur[1]
       IN rend' = [written(rend, cl.out, cl.binding, r)
                     EXCEPT ![r].pc = IF ve.include THEN "include" ELSE "done"]
    /\ UNCHANGED ve
    /\ UNCHANGED <<regVars, reqVars, procVars, childVars, engVars, newVars, concVars, modVars>>

\* the include / parse helper without a bind argument: binding =
\* engine.binding, a load of the engine's field; the text goes to the writer
\* of the template being executed
IncludeHelper(r) ==
    /\ rend[r].pc = "include"
    /\ rend' = [written(rend, rend[r].cur[1].out, ve.binding, r) EXCEPT ![r].pc = "done"]
    /\ UNCHANGED ve
    /\ UNCHANGED <<regVars, reqVars, procVars, childVars, engVars, newVars, concVars, modVars>>

InitRender ==
    /\ InitCore(FALSE)
    /\ InitProc
    /\ InitChild
    /\ InitEng
    /\ InitApp
    /\ \E layout \in {"", "layout"}, include \in BOOLEAN : ve = newView(layout, include)
    /\ rend = [r \in ReqIds |-> idleRender]
    /\ InitAdders
    /\ InitModules

NextRender ==
    \/ \E r \in ReqIds : RenderCall(r)
    \/ \E r \in ReqIds : SetBinding(r)
    \/ \E r \in ReqIds : SetYield(r)
    \/ \E r \in ReqIds : ExecuteLayout(r)
    \/ \E r \in ReqIds : CallYield(r)
    \/ \E r \in ReqIds : ExecuteTemplate(r)
    \/ \E r \in ReqIds : IncludeHelper(r)

SpecRender == InitRender /\ [][NextRender]_vars

\* ---------------------------------------------------------------- addRoute, step by step
\* goroutines that call addRoute at the same time, each with its own route.
\* The statements of addRoute are separate steps; only the increment of
\* routesCount is made between Lock and Unlock.
Adders == 1..2
AddMethods == {"GET", "POST"}
AddPaths == { <<"/", "a">>, <<"/", "b">> }
newAdder(rid, method) ==
    [pc |-> "start", rid |-> rid, method |-> method, merge |-> FALSE, snap |-> <<>>]

\* l := len(c.stack[m]) and the test for a merge with the last route
AddCheck(g) ==
    /\ adders[g].pc = "start"
    /\ LET m == methodInt(adders[g].method)
           l == Len(stack[m])
           route == routes[adders[g].rid]
           merge == l > 0 /\ routes[stack[m][l]].Path = route.Path
                          /\ route.use = routes[stack[m][l]].use
       IN adders' = [adders EXCEPT ![g].merge = merge,
                                   ![g].pc = IF merge THEN "merge" ELSE "count"]
    /\ UNCHANGED regVars
    /\ UNCHANGED <<reqVars, procVars, childVars, engVars, newVars, viewVars, modVars>>

\* preRoute.Handlers = append(preRoute.Handlers, route.Handlers...)
AddMerge(g) ==
    /\ adders[g].pc = "merge"
    /\ LET m == methodInt(adders[g].method)
           pre == stack[m][Len(stack[m])]
       IN routes' = [routes EXCEPT ![pre].Handlers = @ \o routes[adders[g].rid].Handlers]
    /\ adders' = [adders EXCEPT ![g].pc = "tree"]
    /\ UNCHANGED <<CaseSensitive, stack, treeStack, routesCount, regs, aborted, serving>>
    /\ UNCHANGED <<reqVars, procVars, childVars, engVars, newVars, viewVars, modVars>>

\* c.mutex.Lock(); c.routesCount++; c.mutex.Unlock()
AddCount(g) ==
    /\ adders[g].pc = "count"
    /\ routesCount' = routesCount + 1
    /\ adders' = [adders EXCEPT ![g].pc = "pos"]
    /\ UNCHANGED <<CaseSensitive, routes, stack, treeStack, regs, aborted, serving>>
    /\ UNCHANGED <<reqVars, procVars, childVars, engVars, newVars, viewVars, modVars>>

\* route.pos = c.routesCount; route.Method = method
AddPos(g) ==
    /\ adders[g].pc = "pos"
    /\ routes' = [routes EXCEPT ![adders[g].rid].pos = routesCount,
                                ![adders[g].rid].Method = adders[g].method]
    /\ adders' = [adders EXCEPT ![g].pc = "load"]
    /\ UNCHANGED <<CaseSensitive, stack, treeStack, routesCount, regs, aborted, serving>>
    /\ UNCHANGED <<reqVars, procVars, childVars, engVars, newVars, viewVars, modVars>>

\* append(c.stack[m], route): the slice is read
AddLoad(g) ==
    /\ adders[g].pc = "load"
    /\ adders' = [adders EXCEPT ![g].snap = stack[methodInt(adders[g].method)],
                                ![g].pc = "store"]
    /\ UNCHANGED regVars
    /\ UNCHANGED <<reqVars, procVars, childVars, engVars, newVars, viewVars, modVars>>

\* c.stack[m] = ...: the appended slice is stored
AddStore(g) ==
    /\ adders[g].pc = "store"
    /\ stack' = [stack EXCEPT ![methodInt(adders[g].method)] =
                                  Append(adders[g].snap, adders[g].rid)]
    /\ adders' = [adders EXCEPT ![g].pc = "tree"]
    /\ UNCHANGED <<CaseSensitive, routes, treeStack, routesCount, regs, aborted, serving>>
    /\ UNCHANGED <<reqVars, procVars, childVars, engVars, newVars, viewVars, modVars>>

\* c.buildTree()
AddTree(g) ==
    /\ adders[g].pc = "tree"
    /\ treeStack' = buildTree(routes, stack)
    /\ adders' = [adders EXCEPT ![g].pc = "done"]
    /\ UNCHANGED <<CaseSensitive, routes, stack, routesCount, regs, aborted, serving>>
    /\ UNCHANGED <<reqVars, procVars, childVars, engVars, newVars, viewVars, modVars>>

\* two route objects made by two pushMethod calls, not yet in any list
InitAdd ==
    /\ \E m1 \in AddMethods, m2 \in AddMethods, p1 \in AddPaths, p2 \in AddPaths :
          /\ routes = <<newRoute(FALSE, m1, p1, handlersOf(1, 1)),
                        newRoute(FALSE, m2, p2, handlersOf(2, 1))>>
          /\ adders = <<newAdder(1, m1), newAdder(2, m2)>>
    /\ CaseSensitive = FALSE
    /\ stack = [m \in MethodIdx |-> <<>>]
    /\ treeStack = [m \in MethodIdx |-> <<>>]
    /\ routesCount = 0
    /\ regs = <<>>
    /\ aborted = FALSE
    /\ serving = FALSE
    /\ pool = {}
    /\ ctxs = <<>>
    /\ reqs = [r \in ReqIds |-> idleReq]
    /\ InitProc
    /\ InitChild
    /\ InitEng
    /\ InitApp
    /\ InitView
    /\ InitModules

NextAdd ==
    \/ \E g \in Adders : AddCheck(g)
    \/ \E g \in Adders : AddMerge(g)
    \/ \E g \in Adders : AddCount(g)
    \/ \E g \in Adders : AddPos(g)
    \/ \E g \in Adders : AddLoad(g)
    \/ \E g \in Adders : AddStore(g)
    \/ \E g \in Adders : AddTree(g)

SpecAdd == InitAdd /\ [][NextAdd]_vars

\* ---------------------------------------------------------------- module registry
\* IDs and scopes are strings, modelled as sequences of characters
ModuleIDs ==
    { <<"m">>, <<"m", ".", "a">>, <<"m", ".", "b">>, <<"m", ".", "a", ".", "x">>,
      <<"n", ".", "a">>, <<"m", "a">> }
Scopes == { <<>>, <<"m">>, <<"m", ".", "a">>, <<"n">> }

\* the byte value of a character, as Go's string comparison sees it
byteOf(ch) ==
    CASE ch = "." -> 46
      [] ch = "a" -> 97
      [] ch = "b" -> 98
      [] ch = "m" -> 109
      [] ch = "n" -> 110
      [] ch = "x" -> 120

\* mods[i].ID < mods[j].ID
RECURSIVE stringLess(_, _)
stringLess(a, b) ==
    IF b = <<>> THEN FALSE
    ELSE IF a = <<>> THEN TRUE
    ELSE IF byteOf(a[1]) # byteOf(b[1]) THEN byteOf(a[1]) < byteOf(b[1])
    ELSE stringLess(Tail(a), Tail(b))

\* strings.Split(str, "."): the parts between the dots; one empty part for ""
RECURSIVE splitDots(_, _)
splitDots(str, part) ==
    IF str = <<>> THEN <<part>>
    ELSE IF str[1] = "." THEN <<part>> \o splitDots(Tail(str), <<>>)
    ELSE splitDots(Tail(str), Append(part, str[1]))

scopePartsOf(scope) == IF scope = <<>> THEN <<>> ELSE splitDots(scope, <<>>)

\* sort.Slice by ID ascending; the IDs of a map are distinct
RECURSIVE sortByID(_)
sortByID(S) ==
    IF S = {} THEN <<>>
    ELSE LET least == CHOOSE a \in S : \A b \in S \ {a} : stringLess(a, b)
         IN <<least>> \o sortByID(S \ {least})

\* the loop of GetModules: a module is skipped when it has fewer parts than
\* the scope or differs from the scope in one of the scope's parts
selectedBy(scope, id) ==
    LET scopeParts == scopePartsOf(scope)
        modParts == splitDots(id, <<>>)
    IN /\ ~(Len(modParts) < Len(scopeParts))
       /\ \A i \in 1..Len(scopeParts) : modParts[i] = scopeParts[i]

GetModules(mods, scope) == sortByID({id \in mods : selectedBy(scope, id)})

\* RegisterModule: an ID already present keeps its first registration
RegisterModule(id) ==
    /\ ~got.called
    /\ modules' = modules \cup {id}
    /\ UNCHANGED got
    /\ UNCHANGED <<regVars, reqVars, procVars, childVars, engVars, newVars, viewVars, concVars>>

GetModulesCall(scope) ==
    /\ got' = [scope |-> scope, mods |-> GetModules(modules, scope), called |-> TRUE]
    /\ UNCHANGED modules
    /\ UNCHANGED <<regVars, reqVars, procVars, childVars, engVars, newVars, viewVars, concVars>>

NextModules ==
    \/ \E id \in ModuleIDs : RegisterModule(id)
    \/ \E scope \in Scopes : GetModulesCall(scope)

SpecModules == Init /\ [][NextModules]_vars

\* ---------------------------------------------------------------- properties
InFlight(r) == reqs[r].pc \in {"assigned", "running", "returning"}

\* the bucket the context c scans, and whether a route of it matches the request
treeOfCtx(c) == treeOf(treeStack, c.methodINT, c.treePath)
matchesCtx(rid, c) == match(routes[rid], c.detectionPath, c.path, c.values).ok
laterMatch(c) ==
    \E j \in (c.index + 1)..(Len(treeOfCtx(c)) - 1) : matchesCtx(treeOfCtx(c)[j + 1], c)

\* request r takes a step that calls Core.next / Ctx.Next
calledCoreNext(r) == reqs'[r] # reqs[r] /\ reqs'[r].op \in {"core.next", "Next:core.next"}
calledNext(r) == reqs'[r] # reqs[r] /\ reqs'[r].op \in {"Next:chain", "Next:core.next"}

\* the context after Core.next dispatched from the context c: the cursor is on
\* the first matching route after c's cursor, that route is recorded, the chain
\* index is 0 and exactly handler 0 of the route was invoked
dispatchedFirst(r, c, c2) ==
    LET tree == treeOfCtx(c)
    IN /\ c2.index > c.index /\ c2.index <= Len(tree) - 1
       /\ matchesCtx(tree[c2.index + 1], c)
       /\ \A j \in (c.index + 1)..(c2.index - 1) : ~matchesCtx(tree[j + 1], c)
       /\ c2.route = tree[c2.index + 1]
       /\ c2.indexHandler = 0
       /\ reqs'[r].trace = Append(reqs[r].trace, routes[c2.route].Handlers[1])
       /\ Len(reqs'[r].frames) = Len(reqs[r].frames) + 1
       /\ reqs'[r].lastMatch /\ reqs'[r].lastErr = NoErr

\* C1: every Core.next call that has a matching candidate after the cursor
\* stops at the first such candidate in stored order: the cursor is left on
\* it, the route is recorded, only handler 0 of its chain is invoked and the
\* call returns matched = true.
C1_NextStopsAtFirstMatch ==
    [][\A r \in ReqIds :
          (calledCoreNext(r) /\ laterMatch(ctxs[reqs[r].ctx]))
              => dispatchedFirst(r, ctxs[reqs[r].ctx], ctxs'[reqs[r].ctx])]_vars

\* a Core.next call skipped a non-matching candidate and dispatched a route
\* whose chain has more than one handler
C1_Witness ==
    \E r \in ReqIds :
        /\ reqs[r].op \in {"core.next", "Next:core.next"} /\ reqs[r].lastMatch
        /\ ctxs[reqs[r].ctx].index >= reqs[r].from + 2
        /\ Len(routes[ctxs[reqs[r].ctx].route].Handlers) >= 2
        /\ reqs[r].trace[Len(reqs[r].trace)] = routes[ctxs[reqs[r].ctx].route].Handlers[1]

\* C2: a Next() call invokes the next handler of the matched route's chain
\* when one remains, leaving the cursor alone; otherwise it re-enters the scan
\* strictly after the cursor and either dispatches handler 0 of the next
\* matching route or produces the not-found outcome.
C2_NextAdvancesChainThenScan ==
    [][\A r \in ReqIds :
          calledNext(r) =>
              LET c == ctxs[reqs[r].ctx]
                  c2 == ctxs'[reqs[r].ctx]
                  hs == routes[c.route].Handlers
              IN IF c.indexHandler + 1 < Len(hs)
                 THEN /\ reqs'[r].op = "Next:chain"
                      /\ c2.index = c.index /\ c2.route = c.route
                      /\ c2.indexHandler = c.indexHandler + 1
                      /\ reqs'[r].trace = Append(reqs[r].trace, hs[c.indexHandler + 2])
                 ELSE /\ reqs'[r].op = "Next:core.next"
                      /\ IF laterMatch(c)
                         THEN dispatchedFirst(r, c, c2) /\ reqs'[r].status = reqs[r].status
                         ELSE /\ reqs'[r].trace = reqs[r].trace
                              /\ Len(reqs'[r].frames) = Len(reqs[r].frames)
                              /\ ~reqs'[r].lastMatch
                              /\ reqs'[r].exhausted
                              /\ reqs'[r].status = StatusNotFound
                              /\ reqs'[r].body = <<"Cannot", reqs[r].method, reqs[r].path>>]_vars

\* Next() walked a two-handler chain and then, the chain exhausted, dispatched
\* a later matching route
C2_Witness ==
    \E r \in ReqIds :
        /\ reqs[r].op = "Next:core.next" /\ reqs[r].lastMatch
        /\ Len(reqs[r].trace) >= 3
        /\ \E rid \in 1..Len(routes) :
              /\ Len(routes[rid].Handlers) >= 2
              /\ rid # ctxs[reqs[r].ctx].route
              /\ reqs[r].trace[1] = routes[rid].Handlers[1]
              /\ reqs[r].trace[2] = routes[rid].Handlers[2]

\* ---------------------------------------------------------------- registrations and requests
RegIdx == 1..Len(regs)
regHandlers(k) == handlersOf(k, regs[k].n)
regRaw(k) == normRaw(regs[k].path)
regPretty(k) == normPretty(CaseSensitive, regRaw(k))
regRoute(k) == newRoute(CaseSensitive, regs[k].method, regs[k].path, regHandlers(k))
regIsUse(k) == regs[k].ok /\ regs[k].method = methodUse

\* the detection path of request r
reqCtx(r) == ctxInit(CaseSensitive, newCtx, r, reqs[r].method, reqs[r].path)
\* the pattern of registration k matches the path of request r
regMatches(k, r) ==
    match(regRoute(k), reqCtx(r).detectionPath, reqCtx(r).path, <<<<>>>>).ok

\* sub occurs in hs as a contiguous run
containsSeq(hs, sub) ==
    \E i \in 0..(Len(hs) - Len(sub)) : SubSeq(hs, i + 1, i + Len(sub)) = sub

inTrace(r, h) == \E i \in 1..Len(reqs[r].trace) : reqs[r].trace[i] = h

\* a handler of a non-USE registration ran during request r
nonUseRan(r) ==
    \E i \in 1..Len(reqs[r].trace) : regs[reqs[r].trace[i][1]].method # methodUse

\* the path of request r is registered under a method other than its own
knownUnderOtherMethod(r) ==
    \E k \in RegIdx :
        /\ regs[k].ok
        /\ regs[k].method \notin {methodUse, reqs[r].method}
        /\ regMatches(k, r)

\* C3: in a request whose handlers call Next() at most once each, handlers
\* run in the order of the registration calls that supplied them.
C3_RunsInRegistrationOrder ==
    \A r \in ReqIds :
        ~reqs[r].multi =>
            \A i, j \in 1..Len(reqs[r].trace) :
                i < j => reqs[r].trace[i][1] <= reqs[r].trace[j][1]

\* C4: a context just acquired from the pool carries nothing of the request
\* it served before: method, paths, cursor, chain index, matched flag,
\* matched-route pointer and parameter slots are all those of a fresh context.
C4_FullyReinitialized ==
    \A r \in ReqIds :
        reqs[r].pc = "assigned" =>
            LET c == ctxs[reqs[r].ctx]
            IN /\ c.method = reqs[r].method
               /\ c.pathOriginal = reqs[r].path
               /\ c.path = reqs[r].path
               /\ c.detectionPath = reqCtx(r).detectionPath
               /\ c.index = -1
               /\ c.indexHandler = 0
               /\ c.matched = FALSE
               /\ c.route = Nil
               /\ c.values = newCtx.values

\* C5: a context is held by at most one in-flight request, is not in the pool
\* while held, and is released exactly once per request, at the return of
\* handleRequest (also for a rejected method).
C5_ExclusiveOwnership ==
    /\ \A r1, r2 \in ReqIds :
          (r1 # r2 /\ InFlight(r1) /\ InFlight(r2)) => reqs[r1].ctx # reqs[r2].ctx
    /\ \A r \in ReqIds :
          InFlight(r) => /\ reqs[r].ctx \notin pool
                         /\ ctxs[reqs[r].ctx].RequestCtx = r
                         /\ reqs[r].released = 0
    /\ \A r \in ReqIds :
          reqs[r].pc = "done" => /\ reqs[r].released = 1
                                 /\ reqs[r].ctx \in pool \/ \E r2 \in ReqIds : r2 # r /\ InFlight(r2) /\ reqs[r2].ctx = reqs[r].ctx

\* a context released by a finished request is held by a running one
C5_Witness ==
    \E r1, r2 \in ReqIds :
        /\ r1 # r2
        /\ reqs[r1].pc = "done" /\ reqs[r1].released = 1
        /\ reqs[r2].pc = "running" /\ reqs[r2].ctx = reqs[r1].ctx

\* C6: after a USE registration every method's list holds a use-route for the
\* path that carries the handlers, and a request with a valid method whose
\* path matches runs them (once the scan has gone through the whole bucket).
\* The lists do not change while a request is in flight, so they are looked
\* at in the states where none is.
C6_UseAppliesToAllMethods ==
    \A k \in RegIdx :
        regIsUse(k) =>
            /\ (\A r \in ReqIds : reqs[r].pc = "idle") =>
                  \A m \in MethodIdx :
                      \E i \in 1..Len(stack[m]) :
                          /\ routes[stack[m][i]].use
                          /\ routes[stack[m][i]].Path = regRaw(k)
                          /\ containsSeq(routes[stack[m][i]].Handlers, regHandlers(k))
            /\ \A r \in ReqIds :
                  reqs[r].exhausted =>
                      \/ \A i \in 1..regs[k].n : inTrace(r, regHandlers(k)[i])
                      \/ ~regMatches(k, r)

\* a request with a method other than the first of the method list ran a
\* USE registration's handler
C6_Witness ==
    \E r \in ReqIds, k \in RegIdx :
        /\ regIsUse(k)
        /\ reqs[r].method = "POST"
        /\ reqs[r].exhausted
        /\ regMatches(k, r)
        /\ inTrace(r, regHandlers(k)[1])

\* C7: a USE registration that repeats the path of the USE registration made
\* just before it adds no entry to any method's list, leaves the route
\* counter alone, and its handlers end up in the existing route's chain.
C7_ReRegisterUseMerges ==
    [][(/\ Len(regs') = Len(regs) + 1
        /\ Len(regs) >= 1
        /\ regs[Len(regs)].ok /\ regs[Len(regs)].method = methodUse
        /\ regs'[Len(regs')].ok /\ regs'[Len(regs')].method = methodUse
        /\ normRaw(regs'[Len(regs')].path) = normRaw(regs[Len(regs)].path))
       => /\ routesCount' = routesCount
          /\ stack' = stack
          /\ Len(routes') = Len(routes)
          /\ \A m \in MethodIdx :
                LET rid == stack[m][Len(stack[m])]
                    old == routes[rid].Handlers
                    new == routes'[rid].Handlers
                IN /\ SubSeq(new, 1, Len(old)) = old
                   /\ Len(new) > Len(old)
                   /\ \A i \in (Len(old) + 1)..Len(new) : new[i][1] = Len(regs')]_vars

\* the same USE path was registered twice in a row
C7_Witness ==
    /\ Len(regs) >= 2
    /\ regs[Len(regs)].ok /\ regs[Len(regs)].method = methodUse
    /\ regs[Len(regs) - 1].ok /\ regs[Len(regs) - 1].method = methodUse
    /\ regRaw(Len(regs)) = regRaw(Len(regs) - 1)
    /\ \A m \in MethodIdx : Len(stack[m]) = 1

\* the methods a registration applies to
regMethodIdx(k) == IF regs[k].method = methodUse THEN MethodIdx ELSE {methodInt(regs[k].method)}

\* how often the handler h occurs in the chain hs
RECURSIVE countIn(_, _)
countIn(hs, h) ==
    IF hs = <<>> THEN 0
    ELSE (IF Head(hs) = h THEN 1 ELSE 0) + countIn(Tail(hs), h)

\* how often the handler h occurs in the first n routes of method m's list
RECURSIVE occurrences(_, _, _)
occurrences(m, n, h) ==
    IF n = 0 THEN 0
    ELSE countIn(routes[stack[m][n]].Handlers, h) + occurrences(m, n - 1, h)

\* C28: every handler supplied to a successful registration occurs exactly
\* once in the routes of each method the registration applies to, and not at
\* all in the routes of the other methods
C28_HandlersOccurAsSupplied ==
    \A k \in RegIdx :
        regs[k].ok =>
            \A i \in 1..regs[k].n : \A m \in MethodIdx :
                occurrences(m, Len(stack[m]), <<k, i>>)
                    = IF m \in regMethodIdx(k) THEN 1 ELSE 0

\* C8: two registrations that normalize to the same method and path (and are
\* the only ones that do) are held as a single route whose chain is the
\* first's handlers followed by the second's.
C8_SameRouteSingleEntry ==
    \A k1, k2 \in RegIdx :
        (/\ k1 < k2 /\ regs[k1].ok /\ regs[k2].ok
         /\ regs[k1].method = regs[k2].method
         /\ regPretty(k1) = regPretty(k2)
         /\ \A k \in RegIdx \ {k1, k2} :
               ~(regs[k].ok /\ regs[k].method = regs[k1].method /\ regPretty(k) = regPretty(k1)))
        => \A m \in regMethodIdx(k1) :
              LET S == {i \in 1..Len(stack[m]) :
                           /\ routes[stack[m][i]].path = regPretty(k1)
                           /\ routes[stack[m][i]].use = (regs[k1].method = methodUse)}
              IN /\ Cardinality(S) = 1
                 /\ \A i \in S :
                       routes[stack[m][i]].Handlers = regHandlers(k1) \o regHandlers(k2)

\* C9: when a Core.next call ends with the bucket exhausted, it returns
\* ErrMethodNotAllowed exactly when no non-use route has matched during the
\* request and the path is registered under a different method.
C9_MethodNotAllowedIndication ==
    \A r \in ReqIds :
        (reqs[r].op \in {"core.next", "Next:core.next"} /\ ~reqs[r].lastMatch)
            => (reqs[r].lastErr = ErrMethodNotAllowed
                    <=> (~nonUseRan(r) /\ knownUnderOtherMethod(r)))

\* a use-route ran, Next() exhausted the bucket, and the path being known
\* under another method was reported
C9_Witness ==
    \E r \in ReqIds :
        /\ reqs[r].op = "Next:core.next" /\ ~reqs[r].lastMatch
        /\ reqs[r].trace # <<>>
        /\ reqs[r].lastErr = ErrMethodNotAllowed

\* C10: every request whose scan was exhausted ends with status 404, whether
\* the exhaustion came from handleRequest's own Core.next call or from Next().
C10_AlwaysNotFound ==
    \A r \in ReqIds :
        (reqs[r].pc = "done" /\ reqs[r].exhausted) => reqs[r].status = StatusNotFound

\* C11: a Core.next call that reaches the end of the bucket without a match
\* returns matched=false and leaves the response at status 404 with body
\* "Cannot <method> <original path>", on the initial dispatch and through
\* Next() alike.
C11_ExhaustedScanNotFound ==
    \A r \in ReqIds :
        (reqs[r].op \in {"core.next", "Next:core.next"} /\ ~reqs[r].lastMatch)
            => /\ reqs[r].exhausted
               /\ reqs[r].status = StatusNotFound
               /\ reqs[r].body = <<"Cannot", reqs[r].method, reqs[r].path>>
               /\ reqs[r].op = "core.next" => ~reqs[r].match

\* a handler ran, called Next(), and the scan found no further route
C11_Witness ==
    \E r \in ReqIds :
        /\ reqs[r].op = "Next:core.next" /\ ~reqs[r].lastMatch
        /\ reqs[r].trace # <<>>
        /\ reqs[r].status = StatusNotFound
        /\ reqs[r].body = <<"Cannot", reqs[r].method, reqs[r].path>>

\* C12: a registration whose method is neither USE nor an HTTP method, or
\* whose handler list is empty, aborts and changes neither the per-method
\* lists, the route counter nor the bucket index.
C12_InvalidRegistrationAborts ==
    [][(/\ Len(regs') = Len(regs) + 1
        /\ LET g == regs'[Len(regs')]
           IN \/ g.method # methodUse /\ methodInt(g.method) = -1
              \/ g.n = 0)
       => /\ aborted'
          /\ stack' = stack
          /\ routesCount' = routesCount
          /\ treeStack' = treeStack
          /\ routes' = routes]_vars

\* after successful registrations, one with an empty handler list aborted
C12_Witness ==
    /\ aborted
    /\ routesCount > 0
    /\ regs[Len(regs)].n = 0
    /\ regs[Len(regs)].method \in {methodUse, "GET"}

\* position of route object rid in the list of method m
stackIndex(m, rid) == CHOOSE i \in 1..Len(stack[m]) : stack[m][i] = rid

\* C13: in every method's list pos is strictly increasing with the list
\* position, and every bucket tries its candidates in that same order.
C13_PosStrictlyIncreasing ==
    \A m \in MethodIdx :
        /\ \A i, j \in 1..Len(stack[m]) :
              i < j => routes[stack[m][i]].pos < routes[stack[m][j]].pos
        /\ \A k \in DOMAIN treeStack[m] :
              LET b == treeStack[m][k]
              IN \A i, j \in 1..Len(b) :
                    i < j => /\ routes[b[i]].pos < routes[b[j]].pos
                             /\ stackIndex(m, b[i]) < stackIndex(m, b[j])

\* a list holds a use-route, then a route of its own, then a use-route again
C13_Witness ==
    \E m \in MethodIdx :
        /\ Len(stack[m]) = 3
        /\ routes[stack[m][1]].use /\ ~routes[stack[m][2]].use /\ routes[stack[m][3]].use
        /\ routesCount >= 5

\* the routes of method m's list, and those among them with a short literal
\* prefix or with the literal prefix starting with K
listed(m) == {stack[m][i] : i \in 1..Len(stack[m])}
shortPrefix(m) == {rid \in listed(m) : Len(routes[rid].const) < 3}
prefixed(m, K) == {rid \in listed(m) : /\ Len(routes[rid].const) >= 3
                                         /\ SubSeq(routes[rid].const, 1, 3) = K}
bucketSet(b) == {b[i] : i \in 1..Len(b)}

\* C14: for every method the empty-key bucket holds exactly the routes with
\* a literal prefix shorter than three characters, every other bucket K
\* exactly the routes whose literal prefix starts with K plus those of the
\* empty-key bucket, each once and by ascending pos; every route is in a bucket.
C14_BucketIndexDerived ==
    \A m \in MethodIdx :
        /\ bucketSet(treeOf(treeStack, m, <<>>)) = shortPrefix(m)
        /\ (<<>> \in DOMAIN treeStack[m]) = (shortPrefix(m) # {})
        /\ \A rid \in listed(m) : treePathOf(routes[rid]) \in DOMAIN treeStack[m]
        /\ \A K \in DOMAIN treeStack[m] :
              LET b == treeStack[m][K]
              IN /\ K # <<>> => /\ Len(K) = 3
                                /\ bucketSet(b) = prefixed(m, K) \cup shortPrefix(m)
                 /\ Cardinality(bucketSet(b)) = Len(b)
                 /\ \A i, j \in 1..Len(b) : i < j => routes[b[i]].pos < routes[b[j]].pos

\* a bucket of a three-character key holds a route of its own between two
\* routes of the empty-key bucket
C14_Witness ==
    \E m \in MethodIdx : \E K \in DOMAIN treeStack[m] :
        /\ K # <<>>
        /\ Len(treeStack[m][K]) = 3
        /\ treeStack[m][K][2] \in prefixed(m, K)
        /\ treeStack[m][K][1] \in shortPrefix(m)
        /\ treeStack[m][K][3] \in shortPrefix(m)

\* C15: the bucket a request scans is the one keyed by the first three
\* characters of its detection path, else the empty-key bucket; it holds
\* every route with a literal prefix of three or more characters that matches
\* the request, and no route keyed by another three-character prefix.
C15_BucketLookupFindsRoute ==
    \A r \in ReqIds :
        (InFlight(r) /\ ctxs[reqs[r].ctx].methodINT # -1) =>
            LET c == ctxs[reqs[r].ctx]
                m == c.methodINT
                d == c.detectionPath
                b == bucketSet(treeOfCtx(c))
            IN /\ treeOfCtx(c) =
                     IF Len(d) >= 3 /\ SubSeq(d, 1, 3) \in DOMAIN treeStack[m]
                     THEN treeStack[m][SubSeq(d, 1, 3)]
                     ELSE treeOf(treeStack, m, <<>>)
               /\ \A rid \in listed(m) :
                     (Len(routes[rid].const) >= 3 /\ matchesCtx(rid, c)) => rid \in b
               /\ \A rid \in listed(m) :
                     (Len(routes[rid].const) >= 3 /\ SubSeq(routes[rid].const, 1, 3) # c.treePath)
                         => rid \notin b

\* the routes of the sequence seq that match the request of context c, in order
RECURSIVE matchingOf(_, _)
matchingOf(seq, c) ==
    IF seq = <<>> THEN <<>>
    ELSE (IF matchesCtx(Head(seq), c) THEN <<Head(seq)>> ELSE <<>>)
             \o matchingOf(Tail(seq), c)

\* C29: the routes a request can be dispatched to through its bucket, in
\* the order the bucket is scanned, are the routes a scan of the method's
\* whole list in registration order would dispatch it to.
C29_BucketedEqualsLinearScan ==
    \A r \in ReqIds :
        (InFlight(r) /\ ctxs[reqs[r].ctx].methodINT # -1) =>
            LET c == ctxs[reqs[r].ctx]
            IN matchingOf(treeOfCtx(c), c) = matchingOf(stack[c.methodINT], c)

\* the pair (cursor, chain index) of invocation a precedes that of b
pairLess(a, b) ==
    \/ a.index < b.index
    \/ a.index = b.index /\ a.indexHandler < b.indexHandler

\* the invocations of request r so far have strictly increasing pairs, the
\* last one is where the context stands or lies before it, and no route was
\* invoked twice at the same chain position
callsIncrease(r) ==
    LET cs == reqs[r].calls
    IN /\ \A i \in 1..Len(cs) : \A j \in 1..Len(cs) :
              i < j => /\ pairLess(cs[i], cs[j])
                       /\ <<cs[i].route, cs[i].indexHandler>> # <<cs[j].route, cs[j].indexHandler>>
       /\ (cs # <<>> /\ InFlight(r)) =>
              LET c == ctxs[reqs[r].ctx]
                  cur == [index |-> c.index, indexHandler |-> c.indexHandler]
              IN \/ /\ cs[Len(cs)].index = cur.index
                    /\ cs[Len(cs)].indexHandler = cur.indexHandler
                 \/ pairLess(cs[Len(cs)], cur)

\* request r ended with the not-found outcome of Core.next, or with what
\* the handlers it invoked left as the response
ended(r) ==
    /\ reqs[r].pc = "done"
    /\ \/ /\ reqs[r].exhausted
          /\ reqs[r].body = <<"Cannot", reqs[r].method, reqs[r].path>>
       \/ /\ ~reqs[r].exhausted
          /\ reqs[r].calls # <<>>

useRoutes == {rid \in UNION {listed(m) : m \in MethodIdx} : routes[rid].use}

\* C16: every use-route is in every bucket of every method's index.
C16_UseRouteInEveryBucket ==
    \A rid \in useRoutes : \A m \in MethodIdx : \A K \in DOMAIN treeStack[m] :
        rid \in bucketSet(treeStack[m][K])

\* C16 amended: within the index of each method that lists it, a use-route
\* with a literal prefix shorter than three characters is in every bucket,
\* and one with a longer literal prefix is in exactly the bucket keyed by the
\* first three characters of that prefix.
C16_UseRouteInBucketsOfItsPrefix ==
    \A m \in MethodIdx : \A rid \in listed(m) :
        routes[rid].use =>
            \A K \in DOMAIN treeStack[m] :
                rid \in bucketSet(treeStack[m][K])
                    <=> (Len(routes[rid].const) < 3 \/ K = SubSeq(routes[rid].const, 1, 3))

\* a method's index has two buckets; one use-route is in both, another only
\* in the bucket of its prefix
C16_Witness ==
    \E m \in MethodIdx : \E K1, K2 \in DOMAIN treeStack[m] :
        \E r1, r2 \in listed(m) :
            /\ K1 # K2
            /\ routes[r1].use /\ routes[r2].use
            /\ r1 \in bucketSet(treeStack[m][K1]) /\ r1 \in bucketSet(treeStack[m][K2])
            /\ r2 \in bucketSet(treeStack[m][K1]) /\ r2 \notin bucketSet(treeStack[m][K2])

\* C17: a Use call given a plain function of type func(*Ctx) does not abort
\* and leaves, in every method's list, a use-route for its path whose chain
\* contains that function.
C17_UsePlainFunctionRegisters ==
    \A k \in RegIdx :
        (regs[k].by = "Use" /\ regs[k].plain >= 1) =>
            /\ regs[k].ok
            /\ \A m \in MethodIdx :
                  \E i \in 1..Len(stack[m]) :
                      /\ routes[stack[m][i]].use
                      /\ routes[stack[m][i]].Path = regRaw(k)
                      /\ \A j \in (regs[k].n + 1)..(regs[k].n + regs[k].plain) :
                            \E x \in 1..Len(routes[stack[m][i]].Handlers) :
                                routes[stack[m][i]].Handlers[x] = <<k, j>>

\* route rid carries handler h in its chain
carries(rid, h) == \E x \in 1..Len(routes[rid].Handlers) : routes[rid].Handlers[x] = h
isPreload(k) == regs[k].by \in {"Handler.Preload", "Preload"}

\* the Preload of a handler object is a USE registration on its prefix made
\* before its verb routes and listed before them for every method
preloadRegisteredFirst ==
    \A k \in RegIdx :
        regs[k].by = "verb" =>
            LET p == regs[k].pre
            IN /\ p < k /\ isPreload(p) /\ regs[p].method = methodUse
               /\ HasPrefix(regRaw(k), regRaw(p))
               /\ \A m \in MethodIdx : \A i \in 1..Len(stack[m]) :
                     carries(stack[m][i], <<k, 1>>) =>
                         \E j \in 1..(i - 1) :
                             /\ routes[stack[m][j]].use
                             /\ carries(stack[m][j], <<p, 1>>)
                             /\ routes[stack[m][j]].pos < routes[stack[m][i]].pos

\* in request r a verb handler ran only after its Preload, and Handler.Preload
\* never ended the request without having called Next()
preloadRanFirst(r) ==
    \A i \in 1..Len(reqs[r].trace) :
        LET k == reqs[r].trace[i][1]
        IN /\ regs[k].by = "verb" =>
                  \E j \in 1..(i - 1) : reqs[r].trace[j] = <<regs[k].pre, 1>>
           /\ (regs[k].by = "Handler.Preload" /\ reqs[r].pc \in {"returning", "done"})
                  => (i < Len(reqs[r].trace) \/ reqs[r].exhausted)

\* in request r a verb handler is running only inside a Next() call of its Preload
verbInsidePreloadNext(r) ==
    \A i \in 1..Len(reqs[r].frames) :
        LET k == reqs[r].frames[i].h[1]
        IN regs[k].by = "verb" =>
               \E j \in 1..(i - 1) :
                   /\ reqs[r].frames[j].h = <<regs[k].pre, 1>>
                   /\ reqs[r].frames[j].nexts >= 1

C19_StaticFallsThrough ==
    [][\A r \in ReqIds :
         LET n == Len(reqs[r].frames)
             fs == reqs'[r].fs
         IN /\ staticInvoked(r) /\ reqs'[r] # reqs[r] =>
                 /\ reqs'[r].frames = reqs[r].frames
                 /\ reqs'[r].trace = reqs[r].trace
                 /\ IF fs \in {StatusNotFound, StatusForbidden}
                    THEN /\ reqs'[r].status = StatusOK
                         /\ reqs'[r].body = <<>>
                         /\ reqs'[r].ctype = <<>>
                         /\ reqs'[r].op = "static:reset"
                    ELSE /\ reqs'[r].status = fs
                         /\ reqs'[r].body = fileResponse(reqs[r], fs).body
                         /\ reqs'[r].ctype = fileResponse(reqs[r], fs).ctype
                         /\ reqs'[r].op = "static:kept"
            /\ reqs[r].op = "static:reset" /\ reqs'[r] # reqs[r] =>
                 /\ reqs'[r].op \in {"Next:chain", "Next:core.next"}
                 /\ reqs'[r].frames[n].nexts = 1
            /\ reqs[r].op = "static:kept" /\ reqs'[r] # reqs[r] =>
                 /\ reqs'[r].op = "return"
                 /\ reqs'[r].frames = SubSeq(reqs[r].frames, 1, n - 1)
                 /\ reqs'[r].trace = reqs[r].trace
                 /\ reqs'[r].status = reqs[r].status
                 /\ reqs'[r].body = reqs[r].body
                 /\ reqs'[r].ctype = reqs[r].ctype
      ]_vars

\* the file handler answered 403, the static handler fell through and a route
\* registered later ran
C19_Witness ==
    \E r \in ReqIds :
        /\ reqs[r].fs = StatusForbidden
        /\ Len(reqs[r].trace) = 2
        /\ regs[reqs[r].trace[1][1]].by = "Static"
        /\ regs[reqs[r].trace[2][1]].by = "Add"
        /\ reqs[r].pc = "done"
        /\ reqs[r].status = StatusOK

\* C20 (as stated): when the parent's prefork call has returned, every child
\* it started has had a kill sent; and when it returned because a child
\* exited, it had started MaxProcs children and returns the exit result of
\* the child that exited first
C20_PreforkReturnsFirstExitKillsAll ==
    parent.pc = "returned" =>
        /\ \A k \in CmdIds : cmds[k].killed
        /\ parent.from # 0 =>
              /\ Len(cmds) = MaxProcs
              /\ \E k \in CmdIds : cmds[k].order = 1 /\ parent.err = cmds[k].err

\* C20 (amended): the parent starts children until MaxProcs are started or a
\* start fails; a failed start returns its error at once; otherwise the call
\* returns the exit result of the child whose exit was delivered first on the
\* channel, a child that has exited and been collected; when the call has
\* returned, every started child has either been collected already or had
\* Kill called on it
C20_PreforkReturnsDeliveredExitKillsUncollected ==
    /\ parent.pc = "start" => Len(cmds) = parent.i /\ parent.i < MaxProcs
    /\ parent.pc = "receive" => Len(cmds) = MaxProcs
    /\ parent.pc = "returned" =>
        /\ \A k \in CmdIds : cmds[k].killed \/ cmds[k].state = "reaped"
        /\ parent.from = 0 => parent.err = ErrStart /\ Len(cmds) < MaxProcs
        /\ parent.from # 0 =>
              /\ Len(cmds) = MaxProcs
              /\ cmds[parent.from].state = "reaped"
              /\ cmds[parent.from].waiter = "sent"
              /\ parent.err = cmds[parent.from].err
    /\ parent.pc # "returned" => \A k \in CmdIds : ~cmds[k].killed

\* the call returned a child's exit while another child was still running,
\* and that child had Kill called on it
C20_Witness ==
    /\ parent.pc = "returned"
    /\ parent.from # 0
    /\ \E k \in CmdIds : k # parent.from /\ cmds[k].state = "running" /\ cmds[k].killed

\* C21: a serving child whose parent process has exited eventually ends
C21_OrphanedChildTerminates ==
    \A k \in Pids : (worker[k].pc = "serving" /\ ~master.alive) ~> (worker[k].pc = "exited")

\* C22: once a shutdown signal has reached the process, the server's
\* graceful shutdown is invoked and Engine.Serve eventually returns, with the
\* Exit hook of every started module run
exitHooksRun ==
    engine.exited = SelectSeq([k \in 1..engine.i |-> k], LAMBDA k : engine.mods[k].exit)

C22_SignalShutsDownAndServeReturns ==
    (engine.sigs > 0) ~> (engine.pc = "returned" /\ engine.shutdowns > 0 /\ exitHooksRun)

\* C23: New() called without any Options returns an initialized Core with
\* the documented defaults applied
C23_NewWithoutOptionsReturnsDefaults ==
    (app.pc # "call" /\ app.opts = <<>>) =>
        /\ app.pc = "returned"
        /\ app.core # <<>>
        /\ app.core[1].Options.BodyLimit = DefaultBodyLimit
        /\ app.core[1].Options.Concurrency = DefaultConcurrency
        /\ app.core[1].Options.ReadBufferSize = DefaultBufferSize
        /\ app.core[1].Options.WriteBufferSize = DefaultBufferSize
        /\ app.core[1].Options.ServerName = "Cola"
        /\ app.core[1].Options.CompressedFileSuffix = ".gz"

\* C24: whatever is written to a request's body writer renders that
\* request's own binding and is written by that request's own Render call
C24_RenderStateIsPerRequest ==
    \A r \in ReqIds : \A i \in 1..Len(rend[r].out) :
        rend[r].out[i].data = r /\ rend[r].out[i].by = r

\* C25: when two concurrent addRoute calls that both took the append branch
\* have ended, the two routes have distinct sequence numbers and each is in
\* its method's list
C25_ConcurrentAddRouteKeepsBoth ==
    (\A g \in Adders : adders[g].pc = "done" /\ ~adders[g].merge) =>
        /\ routes[adders[1].rid].pos # routes[adders[2].rid].pos
        /\ \A g \in Adders :
              \E i \in 1..Len(stack[methodInt(adders[g].method)]) :
                  stack[methodInt(adders[g].method)][i] = adders[g].rid

\* C26: GetModules(scope) returns exactly the registered modules whose ID
\* starts with the scope's parts and has one part more than the scope,
\* sorted by ID ascending
nextLevelOf(scope, id) ==
    LET scopeParts == scopePartsOf(scope)
        modParts == splitDots(id, <<>>)
    IN /\ Len(modParts) = Len(scopeParts) + 1
       /\ SubSeq(modParts, 1, Len(scopeParts)) = scopeParts

C26_GetModulesNextLevelSorted ==
    got.called =>
        /\ {got.mods[i] : i \in 1..Len(got.mods)} = {id \in modules : nextLevelOf(got.scope, id)}
        /\ \A i \in 1..(Len(got.mods) - 1) : stringLess(got.mods[i], got.mods[i + 1])

====
